---- MODULE Spec2Model ----
(***************************************************************************)
(* A model of the ThingsDB python connector: the packet multiplexer        *)
(* (thingsdb/client/protocol.py), the connection manager                   *)
(* (thingsdb/client/client.py) and the asyncio event loop that runs them.  *)
(*                                                                         *)
(* The event loop is modelled as asyncio runs it: a FIFO queue of ready    *)
(* callbacks (`ready`), run one batch at a time; I/O and timer callbacks   *)
(* are appended between two batches, callbacks scheduled with call_soon    *)
(* (a task woken by a future, a new task's first step) at the tail.        *)
(***************************************************************************)
EXTENDS Integers, Sequences, FiniteSets, TLC

\* ---------------------------------------------------------------- bounds
\* connections (Protocol objects) created in one run
MaxProto == 2
\* requests the application issues on a client connected with connect()
MaxApp == 2
\* requests the application issues on a client connected to a pool
MaxAppPool == 1
\* callbacks waiting in the ready queue when an I/O or timer event is added,
\* for a client connected with connect()
MaxReady == 2
\* the same for a client connected to a pool
MaxReadyPool == 0
\* coroutines alive at the same time
MaxTasks == 3
\* nodes in the pool given to connect_pool
PoolSize == 2
\* node-status and warning events a server sends on one connection
MaxEvents == 1
\* failed connection attempts of a reconnect loop, and answers to one
\* request that make the client send it again
MaxRetry == 1
\* calls of room.join
MaxRooms == 2
\* room events a server pushes on one connection
MaxRoomEvents == 2
\* calls of client.close()
MaxClose == 1
\* the largest pool of nodes
MaxPool == 3
\* the attempts of one reconnect loop that fail in a row
MaxAttempts == 11
\* calls of client.reconnect() by the application
MaxReconnect == 1
\* connections made where the application calls reconnect()
MaxProtoSwitch == 3
\* the calls of join() and no_join() in the specification of room ids
MaxCalls == 2
\* the frames of a stream
MaxFrames == 3
\* the characters of a scope
MaxScope == 4

\* ------------------------------------------------------ program constants
ON_NODE_STATUS == 0
ON_WARN == 5
ON_ROOM_JOIN == 6
ON_ROOM_LEAVE == 7
ON_ROOM_EMIT == 8
ON_ROOM_DELETE == 9
RES_PING == 16
RES_OK == 17
RES_DATA == 18
RES_ERROR == 19
REQ_PING == 32
REQ_AUTH == 33
REQ_QUERY == 34
REQ_RUN == 37
REQ_JOIN == 38
REQ_LEAVE == 39
REQ_EMIT == 40
\* pid is handled as uint16_t
PidMod == 65536
\* requests a connection has written and got answered before the
\* application is looked at: none, or as many as bring the counter of pids
\* to its end
PidStarts == {0, PidMod - 2, PidMod - 1}
MAX_RECONNECT_WAIT_TIME == 60
MAX_RECONNECT_TIMEOUT == 10

_PROTO_RESPONSE_MAP == {RES_PING, RES_OK, RES_DATA, RES_ERROR}
_PROTO_EVENTS == {ON_NODE_STATUS, ON_WARN, ON_ROOM_JOIN, ON_ROOM_LEAVE,
                  ON_ROOM_EMIT, ON_ROOM_DELETE}

\* an _ERRMAP without the entries of the internal errors
_ERRMAP_no_internal(code) ==
    CASE code = -64 -> "CancelledError"
      [] code = -63 -> "OperationError"
      [] code = -62 -> "NumArgumentsError"
      [] code = -61 -> "TypeError"
      [] code = -60 -> "ValueError"
      [] code = -59 -> "OverflowError"
      [] code = -58 -> "ZeroDivisionError"
      [] code = -57 -> "MaxQuotaError"
      [] code = -56 -> "AuthError"
      [] code = -55 -> "ForbiddenError"
      [] code = -54 -> "LookupError"
      [] code = -53 -> "BadDataError"
      [] code = -52 -> "SyntaxError"
      [] code = -51 -> "NodeError"
      [] code = -50 -> "AssertionError"
      [] OTHER -> "CustomError"

\* Err / _ERRMAP: the error kind of an error_code, CustomError otherwise
_ERRMAP(code) ==
    CASE code = -64 -> "CancelledError"
      [] code = -63 -> "OperationError"
      [] code = -62 -> "NumArgumentsError"
      [] code = -61 -> "TypeError"
      [] code = -60 -> "ValueError"
      [] code = -59 -> "OverflowError"
      [] code = -58 -> "ZeroDivisionError"
      [] code = -57 -> "MaxQuotaError"
      [] code = -56 -> "AuthError"
      [] code = -55 -> "ForbiddenError"
      [] code = -54 -> "LookupError"
      [] code = -53 -> "BadDataError"
      [] code = -52 -> "SyntaxError"
      [] code = -51 -> "NodeError"
      [] code = -50 -> "AssertionError"
      [] code = -6 -> "ResultTooLargeError"
      [] code = -5 -> "RequestTimeoutError"
      [] code = -4 -> "RequestCancelError"
      [] code = -3 -> "WriteUVError"
      [] code = -2 -> "MemoryError"
      [] code = -1 -> "InternalError"
      [] OTHER -> "CustomError"

VARIABLES
    ready,      \* the event loop's queue of ready callbacks (loop._ready)
    batch,      \* callbacks left in the batch the loop is running
    protos,     \* the Protocol objects created so far
    futs,       \* the request futures created by Protocol.write, in order
    tasks,      \* the coroutines (tasks) of the client and of the application
    client,     \* the Client object's fields
    objs,       \* the Room objects of the application
    last        \* the operation the last step ran (history)

vars == <<ready, batch, protos, futs, tasks, client, objs, last>>

\* The state as one value: the code's functions are operators from state to
\* state, so that a handler is the composition of the calls it makes; ret,
\* full and reg pass what a call returns or finds to its caller.
World == [ready |-> ready, batch |-> batch, protos |-> protos, futs |-> futs,
          tasks |-> tasks, client |-> client, objs |-> objs, last |-> last,
          ret |-> "ok", full |-> FALSE, reg |-> FALSE]

NoData == [none |-> TRUE]

\* a future is referenced by the task that awaits it, by its slot in the
\* map of pending requests and by its timer
Referenced(s, r) ==
    \/ \E t \in DOMAIN s.tasks :
            /\ s.tasks[t].pc \in {"wait", "ping", "auth"}
            /\ s.tasks[t].fut = r
    \/ \E t \in DOMAIN s.tasks :
            /\ s.tasks[t].pc = "run"
            /\ s.tasks[t].run = r
    \/ \E i \in 1..Len(s.protos[s.futs[r].p].requests) :
            s.protos[s.futs[r].p].requests[i].fut = r
    \/ s.futs[r].timer \in {"armed", "due", "waking"}

\* futures nothing refers to are collected: what is left of one is what the
\* server knows of the request
Collect(s) ==
    [r \in 1..Len(s.futs) |->
        IF Referenced(s, r) THEN s.futs[r]
        ELSE [p |-> s.futs[r].p, pid |-> s.futs[r].pid, tp |-> s.futs[r].tp,
              k |-> s.futs[r].k, data |-> NoData, st |-> "collected", val |-> NoData, n |-> 0,
              owner |-> 0, src |-> s.futs[r].src, timer |-> "none",
              answered |-> \/ s.futs[r].answered
                           \/ s.protos[s.futs[r].p].closing
                           \/ s.protos[s.futs[r].p].eof]]

Commit(s) ==
    \E w \in {s} :
        /\ ~w.full
        /\ ready' = w.ready
        /\ batch' = w.batch
        /\ protos' = w.protos
        /\ futs' = Collect(w)
        /\ tasks' = w.tasks
        /\ client' = w.client
        /\ objs' = w.objs
        /\ last' = w.last

\* a package without payload (length 0): pkg.data is None
\* an exception as the outcome of a future or of a coroutine
Exc(kind) == [exc |-> kind]
\* _ERRMAP.get(d['error_code'], CustomError)(errdata=d): the exception of
\* the mapped class, made with the server's map
ErrOf(d) == [exc |-> _ERRMAP(d.error_code), errdata |-> d]

\* ------------------------------------------------------------ event loop
\* loop.call_soon: the callback goes to the tail of the ready queue
call_soon(s, h) == [s EXCEPT !.ready = Append(@, h)]

\* the loop takes the next ready callback; a batch is what was ready when the
\* loop iteration started
PopReady(s) ==
    [s EXCEPT !.ready = Tail(@),
              !.batch = IF @ = 0 THEN Len(s.ready) - 1 ELSE @ - 1]

\* I/O and timer callbacks are added between two batches
AtBoundary ==
    /\ batch = 0
    /\ Len(ready) <= (IF client.pool > 1 THEN MaxReadyPool ELSE MaxReady)

HeadIs(k) == ready # <<>> /\ Head(ready).k = k

\* ------------------------------------------------------------ futures
\* Future.set_result / set_exception: the waiting task is woken by a
\* callback scheduled with call_soon. On a future that is already done
\* asyncio raises InvalidStateError: the attempt is counted in n.
SetFuture(s, r, st, val) ==
    IF s.futs[r].st # "pending"
    THEN [s EXCEPT !.futs[r].n = @ + 1]
    ELSE call_soon([s EXCEPT !.futs[r].st = st, !.futs[r].val = val,
                             !.futs[r].n = @ + 1],
                   [k |-> "wake", t |-> s.futs[r].owner, r |-> r])

\* Future.cancel(): no effect on a future that is done
CancelFuture(s, r) ==
    IF s.futs[r].st # "pending" THEN s
    ELSE SetFuture(s, r, "cancelled", NoData)

\* Task.cancel() of a request's _timer task
CancelTimer(s, r) ==
    IF s.futs[r].timer \in {"armed", "due", "waking"}
    THEN [s EXCEPT !.futs[r].timer = "cancelled"]
    ELSE s

\* ------------------------------------------- _Protocol (the multiplexer)
\* self._requests is a dict pid -> (future, task), kept in insertion order
FindSlot(reqs, pid) ==
    IF \E i \in 1..Len(reqs) : reqs[i].pid = pid
    THEN CHOOSE i \in 1..Len(reqs) : reqs[i].pid = pid
    ELSE 0

RemoveAt(q, i) == SubSeq(q, 1, i - 1) \o SubSeq(q, i + 1, Len(q))

\* self._requests[pid] = (future, task)
DictSet(reqs, slot) ==
    IF FindSlot(reqs, slot.pid) = 0 THEN Append(reqs, slot)
    ELSE [reqs EXCEPT ![FindSlot(reqs, slot.pid)] = slot]

\* Protocol.__init__ and connection_made; package is None (NoData) between
\* two packages; ws tells a ProtocolWS from a Protocol; wire is the bytes
\* in the socket that are not read yet, inbox the websocket messages not
\* received yet; sent (the frames a server has put in the stream) and
\* handled (the packages given to _handle_package since) are history
NewProtocol(node) ==
    [transport |-> TRUE, closing |-> FALSE, eof |-> FALSE,
     close_future |-> TRUE, pid |-> 0, requests |-> <<>>, node |-> node,
     grace |-> "none", closedby |-> "none", stage |-> "made", events |-> 0,
     subs |-> {}, writes |-> 0, _buffered_data |-> <<>>, package |-> NoData,
     ws |-> FALSE, wire |-> <<>>, inbox |-> <<>>, sent |-> <<>>,
     handled |-> <<>>, join_ids |-> {}, join_events |-> {}]

\* _timer with self._requests.get(pid) for pop(pid)
_timer_keeps_slot(s, p, pid, r) ==
    LET reqs == s.protos[p].requests
        i == FindSlot(reqs, pid)
        s0 == [s EXCEPT !.futs[r].timer = "done"]
    IN  IF i = 0
        THEN [s0 EXCEPT !.last = [op |-> "_timer", p |-> p, pid |-> pid, fut |-> 0]]
        ELSE SetFuture(
                [s0 EXCEPT !.last = [op |-> "_timer", p |-> p, pid |-> pid,
                                     fut |-> reqs[i].fut]],
                reqs[i].fut, "exception", Exc("TimeoutError"))

\* _Protocol._timer, after its sleep
_timer(s, p, pid, r) ==
    LET reqs == s.protos[p].requests
        i == FindSlot(reqs, pid)
        s0 == [s EXCEPT !.futs[r].timer = "done"]
    IN  IF i = 0
        THEN [s0 EXCEPT !.last = [op |-> "_timer", p |-> p, pid |-> pid, fut |-> 0]]
        ELSE SetFuture(
                [s0 EXCEPT !.protos[p].requests = RemoveAt(reqs, i),
                           !.last = [op |-> "_timer", p |-> p, pid |-> pid,
                                     fut |-> reqs[i].fut]],
                reqs[i].fut, "exception", Exc("TimeoutError"))

\* _PROTO_RESPONSE_MAP.get(pkg.tp, proto_unknown)(future, pkg.data)
Respond(s, r, pkg) ==
    CASE pkg.tp \in {RES_PING, RES_OK} -> SetFuture(s, r, "result", NoData)
      [] pkg.tp = RES_DATA -> SetFuture(s, r, "result", pkg.data)
      [] pkg.tp = RES_ERROR ->
            SetFuture(s, r, "exception", ErrOf(pkg.data))
      [] OTHER -> SetFuture(s, r, "exception", Exc("TypeError"))

\* _on_response with self._requests.get(pkg.pid) for pop(pkg.pid)
_on_response_keeps_slot(s, p, pkg) ==
    LET reqs == s.protos[p].requests
        i == FindSlot(reqs, pkg.pid)
    IN  IF i = 0
        THEN [s EXCEPT !.last = [op |-> "_on_response", p |-> p, pkg |-> pkg,
                                 fut |-> 0]]
        ELSE LET slot == reqs[i]
                 s1 == [s EXCEPT !.last = [op |-> "_on_response", p |-> p,
                                           pkg |-> pkg, fut |-> slot.fut]]
                 s2 == IF slot.task THEN CancelTimer(s1, slot.fut) ELSE s1
             IN  IF s2.futs[slot.fut].st = "cancelled" THEN s2
                 ELSE Respond(s2, slot.fut, pkg)

\* _on_response that gives a response to the oldest pending request
_on_response_oldest(s, p, pkg) ==
    LET reqs == s.protos[p].requests
        i == IF reqs = <<>> THEN 0 ELSE 1
    IN  IF i = 0
        THEN [s EXCEPT !.last = [op |-> "_on_response", p |-> p, pkg |-> pkg,
                                 fut |-> 0]]
        ELSE LET slot == reqs[i]
                 s1 == [s EXCEPT !.protos[p].requests = RemoveAt(reqs, i),
                                 !.last = [op |-> "_on_response", p |-> p,
                                           pkg |-> pkg, fut |-> slot.fut]]
                 s2 == IF slot.task THEN CancelTimer(s1, slot.fut) ELSE s1
             IN  IF s2.futs[slot.fut].st = "cancelled" THEN s2
                 ELSE Respond(s2, slot.fut, pkg)

\* _Protocol._on_response
_on_response(s, p, pkg) ==
    LET reqs == s.protos[p].requests
        i == FindSlot(reqs, pkg.pid)
    IN  IF i = 0
        THEN [s EXCEPT !.last = [op |-> "_on_response", p |-> p, pkg |-> pkg,
                                 fut |-> 0]]
        ELSE LET slot == reqs[i]
                 s1 == [s EXCEPT !.protos[p].requests = RemoveAt(reqs, i),
                                 !.last = [op |-> "_on_response", p |-> p,
                                           pkg |-> pkg, fut |-> slot.fut]]
                 s2 == IF slot.task THEN CancelTimer(s1, slot.fut) ELSE s1
             IN  IF s2.futs[slot.fut].st = "cancelled" THEN s2
                 ELSE Respond(s2, slot.fut, pkg)

\* _Protocol.cancel_requests: popitem() takes the newest slot first
RECURSIVE cancel_requests(_, _)
cancel_requests(s, p) ==
    LET reqs == s.protos[p].requests
    IN  IF reqs = <<>> THEN s
        ELSE LET slot == reqs[Len(reqs)]
                 s1 == [s EXCEPT !.protos[p].requests = SubSeq(reqs, 1, Len(reqs) - 1)]
                 s2 == IF slot.task THEN CancelTimer(s1, slot.fut) ELSE s1
                 s3 == IF s2.futs[slot.fut].st # "cancelled"
                       THEN CancelFuture(s2, slot.fut) ELSE s2
             IN  cancel_requests(s3, p)

\* the room ids of a JOIN request (history: join_ids of a connection are
\* the room ids written on it in JOIN requests)
JoinIds(tp, data) ==
    IF tp = REQ_JOIN /\ "ids" \in DOMAIN data
    THEN {data.ids[i] : i \in 1..Len(data.ids)}
    ELSE {}

\* a write that gives the request the value of the counter and increments
\* the counter afterwards
write_assign_first(s, p, tp, data, timeout, t) ==
    LET pid == s.protos[p].pid
        s1 == [s EXCEPT !.protos[p].pid = (pid + 1) % PidMod,
                        !.protos[p].writes = @ + 1]
        r == Len(s.futs) + 1
        fut == [p |-> p, pid |-> pid, tp |-> tp, data |-> data, st |-> "pending",
                k |-> s1.protos[p].writes,
                val |-> NoData, n |-> 0, owner |-> t, answered |-> FALSE,
                src |-> s.tasks[t].src,
                timer |-> IF timeout # 0 THEN "armed" ELSE "none"]
    IN  IF ~s1.protos[p].transport
        THEN [s1 EXCEPT !.ret = "ConnectionError"]
        ELSE [s1 EXCEPT !.futs = Append(@, fut),
                        !.protos[p].requests =
                            DictSet(@, [pid |-> pid, fut |-> r,
                                        task |-> timeout # 0]),
                        !.protos[p].join_ids = @ \cup JoinIds(tp, data),
                        !.ret = "ok"]

\* Protocol._write and _Protocol.write: the pid is taken before the bytes
\* are written; s.ret tells whether _write raised ConnectionError. writes
\* (history) counts the calls of write on the connection and k is the
\* number of its write among them
write(s, p, tp, data, timeout, t) ==
    LET pid == (s.protos[p].pid + 1) % PidMod
        s1 == [s EXCEPT !.protos[p].pid = pid, !.protos[p].writes = @ + 1]
        r == Len(s.futs) + 1
        fut == [p |-> p, pid |-> pid, tp |-> tp, data |-> data, st |-> "pending",
                k |-> s1.protos[p].writes,
                val |-> NoData, n |-> 0, owner |-> t, answered |-> FALSE,
                src |-> s.tasks[t].src,
                timer |-> IF timeout # 0 THEN "armed" ELSE "none"]
    IN  IF ~s1.protos[p].transport
        THEN [s1 EXCEPT !.ret = "ConnectionError"]
        ELSE [s1 EXCEPT !.futs = Append(@, fut),
                        !.protos[p].requests =
                            DictSet(@, [pid |-> pid, fut |-> r,
                                        task |-> timeout # 0]),
                        !.protos[p].join_ids = @ \cup JoinIds(tp, data),
                        !.ret = "ok"]

\* --------------------------------------------------------------- Client
\* Client.is_connected
is_connected(s) ==
    s.client.protocol # 0 /\ s.protos[s.client.protocol].transport

\* _write that does not raise when the client is not connected
Client_write_silent(s, t, tp, data, timeout) ==
    IF ~is_connected(s) THEN s
    ELSE write(s, s.client.protocol, tp, data, timeout, t)

\* Client._write: the strict write policy
Client_write(s, t, tp, data, timeout) ==
    IF ~is_connected(s)
    THEN [s EXCEPT !.ret = "ConnectionError"]
    ELSE write(s, s.client.protocol, tp, data, timeout, t)

TaskIds == 1..MaxTasks
Free == [kind |-> "free", pc |-> "none", src |-> "none"]
HasFree(tk) == \E t \in TaskIds : tk[t] = Free
FreeTask(tk) ==
    IF HasFree(tk)
    THEN CHOOSE t \in TaskIds : tk[t] = Free /\ \A u \in 1..(t - 1) : tk[u] # Free
    ELSE 0

\* a coroutine ends: what it returned or raised is kept in `last`
Finish(s, t, out) ==
    [s EXCEPT !.tasks[t] = Free,
              !.last = [op |-> "done", t |-> t, task |-> s.tasks[t],
                        out |-> out]]

\* the outcome of awaiting future r: its result, its exception, or
\* asyncio.CancelledError (a BaseException) when it was cancelled
Outcome(s, r) ==
    CASE s.futs[r].st = "result" -> [res |-> s.futs[r].val]
      [] s.futs[r].st = "exception" -> s.futs[r].val
      [] OTHER -> Exc("asyncio.CancelledError")

IsExc(out) == "exc" \in DOMAIN out

\* asyncio.ensure_future(coro): a new task, its first step scheduled with
\* call_soon
ensure_future(s, rec) ==
    LET t == FreeTask(s.tasks)
    IN  IF t = 0 THEN [s EXCEPT !.full = TRUE]
        ELSE call_soon([s EXCEPT !.tasks[t] = rec], [k |-> "step", t |-> t])

\* a task (coroutine) that writes one request: query(), run(), _join(), ...
\* src tells who called: "app", "rejoin" (a child of _rejoin's gather)
RequestTask(req, src, parent) ==
    [kind |-> "rq", pc |-> "new", req |-> req, src |-> src, parent |-> parent,
     fut |-> 0, writes |-> 0, retries |-> 0, room |-> NoData,
     resolved |-> FALSE, wait |-> 0, g |-> 0, waiter |-> "none", handle |-> "none"]

\* asyncio.Lock.release of client._rooms_lock: the first waiter is woken
release(s) ==
    LET s1 == [s EXCEPT !.client.rooms_lock.locked = FALSE]
    IN  IF s.client.rooms_lock.waiters = <<>> \/ s.client.rooms_lock.woken
        THEN s1
        ELSE call_soon([s1 EXCEPT !.client.rooms_lock.woken = TRUE],
                       [k |-> "wake", t |-> Head(s.client.rooms_lock.waiters),
                        r |-> 0])

\* dict assignment client._rooms[id] = room: a known key keeps its place
RoomsSet(rooms, room) ==
    IF \E i \in 1..Len(rooms) : rooms[i].id = room.id
    THEN [i \in 1..Len(rooms) |->
            IF rooms[i].id = room.id THEN room ELSE rooms[i]]
    ELSE Append(rooms, room)

\* the _id of a room: the integer id, or the str (ThingsDB code) the room
\* was made with
IntId(id) == [str |-> FALSE, id |-> id]
StrId(code) == [str |-> TRUE, code |-> code]

\* RoomBase.__init__(room): _id is room; _wait_join is False, a Future (a
\* gate) or None
\* on_join "test" is the on_join of misc.lock._InnerRoom, whose on_init
\* makes `future` (none before); by (history) tells what resolved it; name
\* is the name the room has on the server, "go" once the lock is handed over
NewRoom(_id, on_join) ==
    [_id |-> _id,
     on_init |-> 0, _wait_join |-> [v |-> "False", g |-> 0], gates |-> <<>>,
     on_join |-> on_join, stops |-> 0, ended |-> 0,
     future |-> "none", by |-> "none", name |-> "none"]

\* a write of client._rooms or of the _id of a room in state s: it is
\* noted when client._rooms_lock is not locked
Written(s) ==
    [s EXCEPT !.client.unlocked = @ \/ ~s.client.rooms_lock.locked]

\* a join that registers a room the server does not know
join_joined_no_check(s, t, out) ==
    LET room == s.tasks[t].room
        o == room.obj
    IN  IF IsExc(out) THEN Finish(release(s), t, out)
        ELSE Finish(release([s EXCEPT !.client.rooms = RoomsSet(@, room),
                                      !.objs[o].on_init = @ + 1,
                                      !.objs[o].stops = 0]),
                    t, [res |-> NoData])

\* a join that leaves on_init for later
join_joined_init_late(s, t, out) ==
    LET room == s.tasks[t].room
    IN  IF IsExc(out) THEN Finish(release(s), t, out)
        ELSE IF ~out.res.joined
        THEN Finish(release(s), t, Exc("LookupError"))
        ELSE Finish(release([s EXCEPT !.client.rooms = RoomsSet(@, room)]),
                    t, [res |-> NoData])

\* RoomBase.join after `await client._join(self._id, scope=self._scope)`:
\* the room is registered, on_init is called and, with wait, the gate of
\* the first join is made; the lock is released at the end of `async with`
\* and, with wait, join awaits the gate in asyncio.wait_for
join_joined(s, t, out) ==
    LET room == s.tasks[t].room
        o == room.obj
        g == Len(s.objs[o].gates) + 1
        s0 == IF s.tasks[t].resolved
              THEN [Written(s) EXCEPT !.objs[o]._id = IntId(room.id)]
              ELSE s
        s1 == [Written(s0) EXCEPT !.client.rooms = RoomsSet(@, room),
                                  !.objs[o].on_init = @ + 1,
                                  !.objs[o].future =
                                    IF s.objs[o].on_join = "test"
                                    THEN "pending" ELSE @,
                                  !.objs[o].stops = 0]
        s2 == [s1 EXCEPT !.objs[o].gates =
                            Append(@, [st |-> "pending", waiter |-> t,
                                       made |-> s.objs[o].ended]),
                         !.objs[o]._wait_join = [v |-> "Future", g |-> g]]
    IN  IF IsExc(out) THEN Finish(release(s), t, out)
        ELSE IF ~out.res.joined
        THEN Finish(release(s), t, Exc("LookupError"))
        ELSE IF s.tasks[t].wait = 0
        THEN Finish(release(s1), t, [res |-> NoData])
        ELSE [release(s2) EXCEPT !.tasks[t].pc = "gate", !.tasks[t].g = g,
                                 !.tasks[t].waiter = "pending",
                                 !.tasks[t].handle = "armed",
                                 !.last = [op |-> "join_waits", t |-> t]]

\* join() and no_join() await one request after the other
RECURSIVE _write_pkg_start(_, _)

\* client.query(code, scope=self._scope) and client._join(id, scope=..)
\* as join() and no_join() call them
QueryReq(room, code) ==
    [tp |-> REQ_QUERY, data |-> [scope |-> room.scope, code |-> code],
     timeout |-> 0]

JoinReq(room) ==
    [tp |-> REQ_JOIN, data |-> [scope |-> room.scope, ids |-> <<room.id>>],
     timeout |-> 0]

\* RoomBase.join after `id = await client.query(code, scope=self._scope)`:
\* TypeError unless id is an integer, else `await client._join(id, ..)`;
\* out.res is [id |-> n] for the integer n
join_resolved(s, t, out) ==
    IF IsExc(out) THEN Finish(release(s), t, out)
    ELSE IF "id" \notin DOMAIN out.res
    THEN Finish(release(s), t, Exc("TypeError"))
    ELSE LET room == [s.tasks[t].room EXCEPT !.id = out.res.id]
         IN  _write_pkg_start(
                [s EXCEPT !.tasks[t].src = "join",
                          !.tasks[t].resolved = TRUE,
                          !.tasks[t].room = room,
                          !.tasks[t].req = JoinReq(room)], t)

\* RoomBase.no_join at `is_room = await client.query(
\* '!is_err(try(room(id)));', id=id, scope=self._scope)`
no_join_is_room(s, t) ==
    _write_pkg_start(
        [s EXCEPT !.tasks[t].src = "no_join_is_room",
                  !.tasks[t].req =
                    QueryReq(s.tasks[t].room, "!is_err(try(room(id)));")], t)

\* RoomBase.no_join after `id = await client.query(code, ..)`
no_join_resolved(s, t, out) ==
    IF IsExc(out) THEN Finish(release(s), t, out)
    ELSE IF "id" \notin DOMAIN out.res
    THEN Finish(release(s), t, Exc("TypeError"))
    ELSE no_join_is_room([s EXCEPT !.tasks[t].room.id = out.res.id], t)

\* RoomBase.no_join after the is_room query: TypeError, or `self._id = id`;
\* the lock is released at the end of `async with`
no_join_checked(s, t, out) ==
    LET room == s.tasks[t].room
    IN  IF IsExc(out) THEN Finish(release(s), t, out)
        ELSE IF ~out.res.is_room
        THEN Finish(release(s), t, Exc("TypeError"))
        ELSE Finish(release([Written(s) EXCEPT
                                !.objs[room.obj]._id = IntId(room.id)]),
                    t, [res |-> NoData])

\* the coroutine of task t ends with `out`; the done-callback of a child of
\* gather() is scheduled with call_soon
WriteDone(s, t, out) ==
    LET tk == s.tasks[t]
        s1 == Finish(s, t, out)
    IN  IF tk.src = "join" THEN join_joined(s, t, out)
        ELSE IF tk.src = "resolve" THEN join_resolved(s, t, out)
        ELSE IF tk.src = "no_join_id" THEN no_join_resolved(s, t, out)
        ELSE IF tk.src = "no_join_is_room" THEN no_join_checked(s, t, out)
        ELSE IF tk.parent # 0
        THEN call_soon(s1, [k |-> "gcb", t |-> tk.parent, out |-> out])
        ELSE s1

\* Client._write (the strict policy) from its call to its await
StrictStart(s, t) ==
    LET tk == s.tasks[t]
        s1 == Client_write(s, t, tk.req.tp, tk.req.data, tk.req.timeout)
    IN  IF s1.ret # "ok"
        THEN WriteDone([s1 EXCEPT !.ret = "ok"], t, Exc(s1.ret))
        ELSE [s1 EXCEPT !.tasks[t].pc = "wait", !.tasks[t].fut = Len(s1.futs),
                        !.tasks[t].writes = @ + 1,
                        !.last = [op |-> "write", t |-> t, fut |-> Len(s1.futs)]]

\* Client._write after its await: the result or the exception of the future
StrictResume(s, t) == WriteDone(s, t, Outcome(s, s.tasks[t].fut))

\* Client._ensure_write (the ensure policy) from the head of its loop to
\* its next await
_ensure_write(s, t) ==
    LET tk == s.tasks[t]
    IN  IF ~is_connected(s)
        THEN [s EXCEPT !.tasks[t].pc = "sleep",
                       !.last = [op |-> "wait_connection", t |-> t]]
        ELSE LET s1 == write(s, s.client.protocol, tk.req.tp, tk.req.data,
                             tk.req.timeout, t)
             IN  [s1 EXCEPT !.tasks[t].pc = "wait",
                            !.tasks[t].fut = Len(s1.futs),
                            !.tasks[t].writes = @ + 1,
                            !.last = [op |-> "write", t |-> t,
                                      fut |-> Len(s1.futs)]]

\* Client._ensure_write after `await self._protocol.write(..)`: the except
\* clause names concurrent.futures.CancelledError, NodeError and AuthError;
\* a cancelled future raises asyncio.CancelledError, which is none of them
EnsureResume(s, t) ==
    LET out == Outcome(s, s.tasks[t].fut)
    IN  IF IsExc(out) /\ out.exc \in {"NodeError", "AuthError"}
        THEN [s EXCEPT !.tasks[t].pc = "sleep",
                       !.tasks[t].retries = @ + 1,
                       !.last = [op |-> "retry", t |-> t]]
        ELSE WriteDone(s, t, out)

\* self._write_pkg: _ensure_write if auto_reconnect else _write
_write_pkg_start(s, t) ==
    IF s.client.ensure THEN _ensure_write(s, t) ELSE StrictStart(s, t)

_write_pkg_resume(s, t) ==
    IF ~s.client.ensure THEN StrictResume(s, t)
    ELSE IF s.tasks[t].pc = "slept" THEN _ensure_write(s, t)
    ELSE EnsureResume(s, t)

\* a lock that is taken whenever it is not locked, whoever waits for it
acquire_barging(s, t) ==
    IF ~s.client.rooms_lock.locked
    THEN [s EXCEPT !.client.rooms_lock.locked = TRUE, !.tasks[t].pc = "locked"]
    ELSE [s EXCEPT !.client.rooms_lock.waiters = Append(@, t),
                   !.tasks[t].pc = "lock",
                   !.last = [op |-> "lock_wait", t |-> t]]

\* asyncio.Lock.acquire of client._rooms_lock by task t, up to its await
acquire(s, t) ==
    IF ~s.client.rooms_lock.locked /\ s.client.rooms_lock.waiters = <<>>
    THEN [s EXCEPT !.client.rooms_lock.locked = TRUE, !.tasks[t].pc = "locked"]
    ELSE [s EXCEPT !.client.rooms_lock.waiters = Append(@, t),
                   !.tasks[t].pc = "lock",
                   !.last = [op |-> "lock_wait", t |-> t]]

\* RoomBase.join inside `async with client._rooms_lock`, to its first
\* await: a str _id (ThingsDB code) is resolved with a query, an integer
\* _id is joined
join_inside(s, t) ==
    LET room == s.tasks[t].room
        _id == s.objs[room.obj]._id
    IN  IF _id.str
        THEN _write_pkg_start(
                [s EXCEPT !.tasks[t].src = "resolve",
                          !.tasks[t].req = QueryReq(room, _id.code)], t)
        ELSE _write_pkg_start(
                [s EXCEPT !.tasks[t].room.id = _id.id,
                          !.tasks[t].req =
                            JoinReq([room EXCEPT !.id = _id.id])], t)

\* RoomBase.join(client) from its call to its first await: the lock, then
\* the first request
join(s, t) ==
    LET s1 == acquire(s, t)
    IN  IF s1.tasks[t].pc = "locked" THEN join_inside(s1, t) ELSE s1

\* RoomBase.join woken with the lock
join_locked(s, t) ==
    join_inside(
        [s EXCEPT !.client.rooms_lock.waiters = Tail(@),
                  !.client.rooms_lock.woken = FALSE,
                  !.client.rooms_lock.locked = TRUE,
                  !.tasks[t].pc = "locked"], t)

\* RoomBase.no_join inside `async with client._rooms_lock`, to its first
\* await: a str _id is resolved with a query, then the is_room query
no_join_inside(s, t) ==
    LET room == s.tasks[t].room
        _id == s.objs[room.obj]._id
    IN  IF _id.str
        THEN _write_pkg_start(
                [s EXCEPT !.tasks[t].src = "no_join_id",
                          !.tasks[t].req = QueryReq(room, _id.code)], t)
        ELSE no_join_is_room([s EXCEPT !.tasks[t].room.id = _id.id], t)

\* RoomBase.no_join(client) from its call to its first await
no_join(s, t) ==
    LET s1 == acquire(s, t)
    IN  IF s1.tasks[t].pc = "locked" THEN no_join_inside(s1, t) ELSE s1

\* RoomBase.no_join woken with the lock
no_join_locked(s, t) ==
    no_join_inside(
        [s EXCEPT !.client.rooms_lock.waiters = Tail(@),
                  !.client.rooms_lock.woken = FALSE,
                  !.client.rooms_lock.locked = TRUE,
                  !.tasks[t].pc = "locked"], t)

\* asyncio.wait_for in RoomBase.join, after `await waiter`: the gate is done,
\* or the time is over and the gate is cancelled (_cancel_and_wait)
join_gate(s, t) ==
    LET o == s.tasks[t].room.obj
        g == s.tasks[t].g
    IN  IF s.objs[o].gates[g].st = "done"
        THEN Finish(s, t, [res |-> NoData])
        ELSE call_soon([s EXCEPT !.objs[o].gates[g].st = "cancelled",
                                 !.tasks[t].pc = "gate_cancel",
                                 !.tasks[t].waiter = "pending",
                                 !.last = [op |-> "join_timeout", t |-> t]],
                       [k |-> "rel", t |-> t, o |-> o, g |-> g])

\* asyncio.wait_for after _cancel_and_wait: TimeoutError
join_gate_cancelled(s, t) == Finish(s, t, Exc("TimeoutError"))

\* asyncio's _release_waiter(waiter), the done-callback of a gate and the
\* callback of wait_for's timeout: the waiting join is woken
_release_waiter(s, h) ==
    LET tk == s.tasks[h.t]
    IN  IF /\ tk.kind = "rq" /\ tk.src = "join"
           /\ tk.pc \in {"gate", "gate_cancel"}
           /\ tk.room.obj = h.o /\ tk.g = h.g
           /\ tk.waiter = "pending"
        THEN call_soon([s EXCEPT !.tasks[h.t].waiter = "done"],
                       [k |-> "wake", t |-> h.t, r |-> 0])
        ELSE s

\* ------------------------------------------------------- the room runtime
\* the handlers a Room subclass registers with @Room.event
_event_handlers == {"new-msg"}

\* the task of RoomBase._on_first_join (first) or of on_join
OnJoinTask(o, first) ==
    [kind |-> "oj", pc |-> "new", src |-> "room", obj |-> o, first |-> first,
     fut |-> [v |-> "False", g |-> 0], run |-> 0]

\* an _on_first_join that sets the gate only when on_join has not raised
on_join_end_no_finally(s, t, out) ==
    LET tk == s.tasks[t]
        o == tk.obj
        s1 == [s EXCEPT !.objs[o].ended = @ + 1]
    IN  IF ~tk.first \/ IsExc(out) THEN Finish(s1, t, out)
        ELSE IF tk.fut.v # "Future" THEN Finish(s1, t, Exc("AttributeError"))
        ELSE IF s.objs[o].gates[tk.fut.g].st # "pending"
        THEN Finish(s1, t, Exc("InvalidStateError"))
        ELSE Finish(call_soon(
                    [s1 EXCEPT !.objs[o].gates[tk.fut.g].st = "done"],
                    [k |-> "rel", t |-> s.objs[o].gates[tk.fut.g].waiter,
                     o |-> o, g |-> tk.fut.g]), t, out)

\* on_join has returned or raised `out`; in _on_first_join the finally
\* clause runs fut.set_result(None), which raises when fut is None or a
\* future that is done or cancelled
on_join_end(s, t, out) ==
    LET tk == s.tasks[t]
        o == tk.obj
        s1 == [s EXCEPT !.objs[o].ended = @ + 1]
    IN  IF ~tk.first THEN Finish(s1, t, out)
        ELSE IF tk.fut.v # "Future" THEN Finish(s1, t, Exc("AttributeError"))
        ELSE IF s.objs[o].gates[tk.fut.g].st # "pending"
        THEN Finish(s1, t, Exc("InvalidStateError"))
        ELSE Finish(call_soon(
                    [s1 EXCEPT !.objs[o].gates[tk.fut.g].st = "done"],
                    [k |-> "rel", t |-> s.objs[o].gates[tk.fut.g].waiter,
                     o |-> o, g |-> tk.fut.g]), t, out)

\* _InnerRoom.on_join to its await: `ok = await self.client.run('test',
\* self.id, scope=self.scope)`, written with the strict policy of a client
\* made without auto_reconnect
InnerRoom_on_join(s, t) ==
    LET o == s.tasks[t].obj
        s1 == Client_write(s, t, REQ_RUN,
                           [procedure |-> "test", id |-> s.objs[o]._id.id], 0)
    IN  IF s1.ret # "ok"
        THEN on_join_end([s1 EXCEPT !.ret = "ok"], t, Exc(s1.ret))
        ELSE [s1 EXCEPT !.tasks[t].pc = "run",
                        !.tasks[t].run = Len(s1.futs),
                        !.last = [op |-> "test", t |-> t, o |-> o]]

\* an on_join of _InnerRoom that does not look at the answer of the test
InnerRoom_on_join_blind(s, t) ==
    LET out == Outcome(s, s.tasks[t].run)
    IN  IF IsExc(out) THEN on_join_end(s, t, out)
        ELSE on_join_end(s, t, [res |-> NoData])

\* _InnerRoom.on_join after the await: the future is resolved when the
\* room has the name 'go' and the future is not done
InnerRoom_on_join_tested(s, t) ==
    LET o == s.tasks[t].obj
        out == Outcome(s, s.tasks[t].run)
    IN  IF IsExc(out) THEN on_join_end(s, t, out)
        ELSE IF out.res.ok /\ s.objs[o].future # "done"
        THEN on_join_end([s EXCEPT !.objs[o].future = "done",
                                   !.objs[o].by = "on_join"],
                         t, [res |-> NoData])
        ELSE on_join_end(s, t, [res |-> NoData])

\* _InnerRoom.on_go, the handler of the event 'go'
InnerRoom_on_go(s, o) ==
    IF s.objs[o].future # "done"
    THEN [s EXCEPT !.objs[o].future = "done", !.objs[o].by = "on_go"]
    ELSE s

\* an _on_first_join that sets the gate before it awaits on_join
on_join_start_gate_first(s, t) ==
    LET tk == s.tasks[t]
        o == tk.obj
        wj == s.objs[o]._wait_join
        s1 == IF tk.first
              THEN [s EXCEPT !.tasks[t].fut = wj,
                             !.objs[o]._wait_join = [v |-> "None", g |-> 0]]
              ELSE s
        s2 == IF tk.first /\ wj.v = "Future"
                 /\ s.objs[o].gates[wj.g].st = "pending"
              THEN call_soon([s1 EXCEPT !.objs[o].gates[wj.g].st = "done"],
                             [k |-> "rel", t |-> s.objs[o].gates[wj.g].waiter,
                              o |-> o, g |-> wj.g])
              ELSE s1
    IN  CASE s.objs[o].on_join = "return" ->
                on_join_end(s2, t, [res |-> NoData])
          [] s.objs[o].on_join = "raise" ->
                on_join_end(s2, t, Exc("RuntimeError"))
          [] OTHER ->
                [s2 EXCEPT !.tasks[t].pc = "sleep",
                           !.last = [op |-> "on_join_awaits", t |-> t, o |-> o]]

\* the first step of the task: _on_first_join takes the gate out of
\* _wait_join, then on_join runs to its end or to its first await
on_join_start(s, t) ==
    LET tk == s.tasks[t]
        o == tk.obj
        s1 == IF tk.first
              THEN [s EXCEPT !.tasks[t].fut = s.objs[o]._wait_join,
                             !.objs[o]._wait_join = [v |-> "None", g |-> 0]]
              ELSE s
    IN  CASE s.objs[o].on_join = "return" ->
                on_join_end(s1, t, [res |-> NoData])
          [] s.objs[o].on_join = "raise" ->
                on_join_end(s1, t, Exc("RuntimeError"))
          [] s.objs[o].on_join = "test" -> InnerRoom_on_join(s1, t)
          [] OTHER ->
                [s1 EXCEPT !.tasks[t].pc = "sleep",
                           !.last = [op |-> "on_join_awaits", t |-> t, o |-> o]]

\* the place of room_id in client._rooms, 0 when it is not a key
RegIndex(rooms, room_id) ==
    IF \E i \in 1..Len(rooms) : rooms[i].id = room_id
    THEN CHOOSE i \in 1..Len(rooms) : rooms[i].id = room_id
    ELSE 0

\* RoomBase._emit_handler: the registered handler of the event, or on_emit
_emit_handler(s, room, data) ==
    IF s.objs[room.obj].on_join = "test"
    THEN IF data.event = "go"
         THEN [InnerRoom_on_go(s, room.obj) EXCEPT !.ret = "on_go",
                                                   !.reg = TRUE]
         ELSE [s EXCEPT !.ret = "on_emit", !.reg = TRUE]
    ELSE [s EXCEPT !.ret = IF data.event \in _event_handlers
                           THEN data.event ELSE "on_emit",
                   !.reg = TRUE]

\* RoomBase._on_join: a task for _on_first_join while the gate is in
\* _wait_join, else a task for on_join
_on_join(s, room, data) ==
    LET wj == s.objs[room.obj]._wait_join
    IN  [ensure_future(s, OnJoinTask(room.obj, wj.v = "Future")) EXCEPT
            !.reg = TRUE,
            !.ret = CASE wj.v = "Future" -> "_on_first_join"
                      [] wj.v = "None" -> "on_join (task)"
                      [] OTHER -> "on_join (background)"]

\* an _on_stop that calls func() and then removes the room
_on_stop_func_first(s, room, func) ==
    LET i == RegIndex(s.client.rooms, room.id)
        s1 == [s EXCEPT !.objs[room.obj].stops = @ + 1,
                        !.ret = func,
                        !.reg = i # 0]
    IN  IF i = 0 THEN s1 ELSE [s1 EXCEPT !.client.rooms = RemoveAt(@, i)]

\* RoomBase._on_stop: the room is removed from client._rooms, then func()
\* (on_leave or on_delete) is called
_on_stop(s, room, func) ==
    LET i == RegIndex(s.client.rooms, room.id)
        s1 == IF i = 0 THEN s
              ELSE [Written(s) EXCEPT !.client.rooms = RemoveAt(@, i)]
    IN  [s1 EXCEPT !.objs[room.obj].stops = @ + 1,
                   !.ret = func,
                   !.reg = RegIndex(s1.client.rooms, room.id) # 0]

\* RoomBase._on_event: _ROOM_EVENT_MAP[pkg.tp](self, pkg.data); s.ret names
\* the method of the room that is called
_ROOM_EVENT_MAP(s, room, pkg) ==
    CASE pkg.tp = ON_ROOM_EMIT -> _emit_handler(s, room, pkg.data)
      [] pkg.tp = ON_ROOM_JOIN -> _on_join(s, room, pkg.data)
      [] pkg.tp = ON_ROOM_LEAVE -> _on_stop(s, room, "on_leave")
      [] pkg.tp = ON_ROOM_DELETE -> _on_stop(s, room, "on_delete")

\* the task of Client._on_room(room_id, pkg); seq counts the room events
\* in the order of their reception
OnRoomTask(pkg, seq, early) ==
    [kind |-> "or", pc |-> "new", src |-> "event", pkg |-> pkg, seq |-> seq,
     early |-> early]

\* Client._on_room inside `async with self._rooms_lock`, to its end: the
\* room is looked up and given the event; the lock is released
_on_room_locked(s, t) ==
    LET tk == s.tasks[t]
        id == tk.pkg.data.id
        i == RegIndex(s.client.rooms, id)
        room == s.client.rooms[i]
        s1 == IF i = 0 THEN [s EXCEPT !.ret = "unknown room", !.reg = FALSE]
              ELSE _ROOM_EVENT_MAP(s, room, tk.pkg)
        s2 == release(s1)
    IN  [s2 EXCEPT
            !.tasks[t] = Free,
            !.ret = "ok",
            !.reg = FALSE,
            !.last = [op |-> "_on_room", t |-> t, id |-> id, seq |-> tk.seq,
                      tp |-> tk.pkg.tp, early |-> tk.early,
                      o |-> IF i = 0 THEN 0 ELSE room.obj,
                      call |-> s1.ret,
                      registered |-> s1.reg,
                      on_init |-> IF i = 0 THEN 0
                                  ELSE s.objs[room.obj].on_init]]

\* a Client._on_room without `async with self._rooms_lock`
_on_room_no_lock(s, t) ==
    LET tk == s.tasks[t]
        id == tk.pkg.data.id
        i == RegIndex(s.client.rooms, id)
        room == s.client.rooms[i]
        s1 == IF i = 0 THEN [s EXCEPT !.ret = "unknown room", !.reg = FALSE]
              ELSE _ROOM_EVENT_MAP(s, room, tk.pkg)
    IN  [s1 EXCEPT
            !.tasks[t] = Free,
            !.ret = "ok",
            !.reg = FALSE,
            !.last = [op |-> "_on_room", t |-> t, id |-> id, seq |-> tk.seq,
                      tp |-> tk.pkg.tp, early |-> tk.early,
                      o |-> IF i = 0 THEN 0 ELSE room.obj,
                      call |-> s1.ret,
                      registered |-> s1.reg,
                      on_init |-> IF i = 0 THEN 0
                                  ELSE s.objs[room.obj].on_init]]

\* Client._on_room from its call: the lock is taken at once when it is free
\* and nobody waits for it
_on_room(s, t) ==
    LET s1 == acquire(s, t)
    IN  IF s1.tasks[t].pc = "locked" THEN _on_room_locked(s1, t) ELSE s1

\* Client._on_room woken with the lock
_on_room_woken(s, t) ==
    _on_room_locked(
        [s EXCEPT !.client.rooms_lock.waiters = Tail(@),
                  !.client.rooms_lock.woken = FALSE,
                  !.client.rooms_lock.locked = TRUE,
                  !.tasks[t].pc = "locked"], t)

\* a _connect that advances the pool index only when the attempt failed
_connect_done_stays_on_success(s, t) ==
    LET res == s.tasks[t].res
    IN  IF res.ok
        THEN [s EXCEPT !.client.protocol = res.p, !.ret = "ok"]
        ELSE [s EXCEPT !.client.pool_idx = (@ + 1) % s.client.pool,
                       !.ret = res.exc]

\* a _connect that advances the pool index in no finally clause
_connect_done_no_finally(s, t) ==
    LET res == s.tasks[t].res
    IN  IF res.ok
        THEN [s EXCEPT !.client.protocol = res.p,
                       !.client.pool_idx = (@ + 1) % s.client.pool,
                       !.ret = "ok"]
        ELSE [s EXCEPT !.ret = res.exc]

\* Client._connect after its await: the new protocol is kept on success,
\* the pool index advances in any case
_connect_done(s, t) ==
    LET res == s.tasks[t].res
        s1 == IF res.ok THEN [s EXCEPT !.client.protocol = res.p] ELSE s
    IN  [s1 EXCEPT !.client.pool_idx = (@ + 1) % s.client.pool,
                   !.ret = IF res.ok THEN "ok" ELSE res.exc]

\* Client.connect(host, port) after _connect
ConnectResume(s, t) ==
    LET s1 == _connect_done(s, t)
    IN  Finish([s1 EXCEPT !.ret = "ok"], t,
               IF s1.ret = "ok" THEN [res |-> NoData] ELSE Exc(s1.ret))

\* ---------------------------------------------------- the reconnect loop
\* the task of Client.reconnect()
ReconnectTask ==
    [kind |-> "rc", pc |-> "new", src |-> "loop", wait_time |-> 0, timeout |-> 0,
     protocol |-> 0, node |-> 0, res |-> NoData, fut |-> 0, attempt |-> 0,
     gather |-> [n |-> 0, finished |-> 0, done |-> FALSE, out |-> NoData,
                 results |-> <<>>, rooms |-> <<>>]]

\* a reconnect() that clears the guard in no finally clause
reconnect_exit_no_finally(s, t, out) ==
    IF IsExc(out) THEN Finish(s, t, out)
    ELSE Finish([s EXCEPT !.client.reconnecting = FALSE], t, out)

\* Client.reconnect leaves: `finally: self._reconnecting = False`
reconnect_exit(s, t, out) ==
    Finish([s EXCEPT !.client.reconnecting = FALSE], t, out)

\* history: the nodes of the last len(pool) connection attempts, with the
\* node _connect picks now as the last of them
Tried(s) ==
    LET all == Append(s.client.tried, s.client.pool_idx)
    IN  IF Len(all) <= s.client.pool THEN all ELSE Tail(all)

\* _reconnect_loop: the head of the loop up to the await in _connect;
\* attempt (history) counts the attempts of the loop
loop_connect(s, t) ==
    [s EXCEPT !.tasks[t].pc = "connect",
              !.tasks[t].node = s.client.pool_idx,
              !.tasks[t].attempt = @ + 1,
              !.client.tried = Tried(s),
              !.last = [op |-> "attempt", t |-> t, node |-> s.client.pool_idx,
                        wait_time |-> s.tasks[t].wait_time,
                        timeout |-> s.tasks[t].timeout]]

\* a loop that drops the old connection after a failed attempt as well
loop_failed_drops_old(s, t, exc) ==
    LET old == s.tasks[t].protocol
        s1 == IF old # 0 /\ s.protos[old].transport
              THEN [s EXCEPT !.protos[old].grace = "armed"] ELSE s
    IN  [s1 EXCEPT !.tasks[t].pc = "sleep", !.ret = "ok",
                   !.last = [op |-> "attempt_failed", t |-> t, exc |-> exc]]

\* _reconnect_loop: `except Exception` and the sleep before the next attempt
loop_failed(s, t, exc) ==
    [s EXCEPT !.tasks[t].pc = "sleep", !.ret = "ok",
              !.last = [op |-> "attempt_failed", t |-> t, exc |-> exc]]

\* _reconnect_loop: the else branch, the old connection is dropped after
\* 10 seconds; then reconnect() returns
loop_succeeded(s, t) ==
    LET old == s.tasks[t].protocol
        new == s.client.protocol
        s1 == IF old # 0 /\ s.protos[old].transport
              THEN [s EXCEPT !.protos[old].grace = "armed"] ELSE s
        s2 == IF new # 0 THEN [s1 EXCEPT !.protos[new].stage = "ready"] ELSE s1
    IN  [reconnect_exit(s2, t, [res |-> NoData]) EXCEPT
            !.last = [op |-> "reconnected", t |-> t, old |-> old, new |-> new,
                      src |-> s.tasks[t].src,
                      attempt |-> s.tasks[t].attempt]]

\* an exception leaves an await of _reconnect_loop: asyncio.CancelledError is
\* no Exception and leaves the loop, any other is logged
loop_except(s, t, exc) ==
    IF exc = "asyncio.CancelledError"
    THEN reconnect_exit(s, t, Exc(exc))
    ELSE loop_failed(s, t, exc)

\* Client._rejoin up to its await: the rooms are grouped per scope, in the
\* order of the registry, and one _join per scope is gathered
\* a grouping that makes one call per room
RECURSIVE ScopesOf_per_room(_, _)
ScopesOf_per_room(rooms, acc) ==
    IF rooms = <<>> THEN acc
    ELSE ScopesOf_per_room(
            Tail(rooms),
            Append(acc, [scope |-> Head(rooms).scope, ids |-> <<Head(rooms).id>>]))

RECURSIVE ScopesOf(_, _)
ScopesOf(rooms, acc) ==
    IF rooms = <<>> THEN acc
    ELSE LET room == Head(rooms)
             i == IF \E j \in 1..Len(acc) : acc[j].scope = room.scope
                  THEN CHOOSE j \in 1..Len(acc) : acc[j].scope = room.scope
                  ELSE 0
         IN  IF room.id = 0 THEN ScopesOf(Tail(rooms), acc)
             ELSE IF i = 0
             THEN ScopesOf(Tail(rooms),
                           Append(acc, [scope |-> room.scope, ids |-> <<room.id>>]))
             ELSE ScopesOf(Tail(rooms),
                           [acc EXCEPT ![i].ids = Append(@, room.id)])

RECURSIVE GatherJoins(_, _, _)
GatherJoins(s, t, calls) ==
    IF calls = <<>> THEN s
    ELSE GatherJoins(
            ensure_future(s, RequestTask(
                [tp |-> REQ_JOIN, data |-> Head(calls), timeout |-> 0],
                "rejoin", t)),
            t, Tail(calls))

_rejoin(s, t) ==
    LET calls == ScopesOf(s.client.rooms, <<>>)
        s0 == [s EXCEPT !.last = [op |-> "_rejoin", t |-> t, calls |-> calls,
                                  p |-> s.client.protocol]]
    IN  IF s.client.rooms = <<>> \/ calls = <<>>
        THEN loop_succeeded(s0, t)
        ELSE [GatherJoins(s0, t, calls) EXCEPT
                !.tasks[t].pc = "rejoin",
                !.tasks[t].gather = [n |-> Len(calls), finished |-> 0,
                                     done |-> FALSE, out |-> NoData,
                                     results |-> <<>>,
                                     rooms |-> s.client.rooms]]

\* _reconnect_loop from `await self._connect(..)` to the await in _ping
loop_connected(s, t) ==
    LET s1 == _connect_done(s, t)
        s2 == IF s1.ret = "ok" THEN Client_write(s1, t, REQ_PING, NoData, 2)
              ELSE s1
    IN  IF s2.ret # "ok" THEN loop_except(s2, t, s2.ret)
        ELSE [s2 EXCEPT !.tasks[t].pc = "ping", !.tasks[t].fut = Len(s2.futs),
                        !.last = [op |-> "ping", t |-> t, p |-> s2.client.protocol]]

\* _reconnect_loop from the answer to PING to the await in _authenticate
loop_pinged(s, t) ==
    LET out == Outcome(s, s.tasks[t].fut)
        p == s.futs[s.tasks[t].fut].p
        s1 == Client_write([s EXCEPT !.protos[p].stage = "pinged"],
                           t, REQ_AUTH, [auth |-> "token"], 5)
    IN  IF IsExc(out) THEN loop_except(s, t, out.exc)
        ELSE IF s1.ret # "ok" THEN loop_except(s1, t, s1.ret)
        ELSE [s1 EXCEPT !.tasks[t].pc = "auth", !.tasks[t].fut = Len(s1.futs),
                        !.last = [op |-> "auth", t |-> t, p |-> s1.client.protocol]]

\* _reconnect_loop from the answer to AUTH into _rejoin
loop_authed(s, t) ==
    LET out == Outcome(s, s.tasks[t].fut)
        p == s.futs[s.tasks[t].fut].p
    IN  IF IsExc(out) THEN loop_except(s, t, out.exc)
        ELSE _rejoin([s EXCEPT !.protos[p].stage = "authed"], t)

\* a rejoin that raises when a room has disappeared on the server
loop_rejoined_null_raises(s, t) ==
    LET g == s.tasks[t].gather
    IN  IF IsExc(g.out) THEN loop_except(s, t, g.out.exc)
        ELSE IF \E i \in 1..Len(g.results) : g.results[i] = [joined |-> FALSE]
        THEN loop_except(s, t, "LookupError")
        ELSE loop_succeeded(s, t)

\* _reconnect_loop after `await self._rejoin()`
loop_rejoined(s, t) ==
    LET out == s.tasks[t].gather.out
    IN  IF IsExc(out) THEN loop_except(s, t, out.exc)
        ELSE loop_succeeded(s, t)

\* a loop that doubles the wait time and adds to the timeout without limit
loop_slept_uncapped(s, t) ==
    loop_connect([s EXCEPT !.tasks[t].wait_time = @ * 2,
                           !.tasks[t].timeout = @ + 1], t)

\* _reconnect_loop after its sleep: the next attempt
loop_slept(s, t) ==
    LET wt == s.tasks[t].wait_time * 2
        s1 == [s EXCEPT
                !.tasks[t].wait_time =
                    IF wt < MAX_RECONNECT_WAIT_TIME THEN wt
                    ELSE MAX_RECONNECT_WAIT_TIME,
                !.tasks[t].timeout =
                    IF @ + 1 < MAX_RECONNECT_TIMEOUT THEN @ + 1
                    ELSE MAX_RECONNECT_TIMEOUT]
    IN  loop_connect(s1, t)

\* a reconnect() without the guard on self._reconnecting
reconnect_unguarded(s, t) ==
    loop_connect(
        [s EXCEPT !.client.reconnecting = TRUE,
                  !.tasks[t].wait_time = 1,
                  !.tasks[t].timeout = 2,
                  !.tasks[t].protocol = s.client.protocol], t)

\* Client.reconnect from its call to its first await
reconnect(s, t) ==
    IF s.client.reconnecting
    THEN Finish([s EXCEPT !.last = [op |-> "reconnect_skipped"]], t,
                [res |-> NoData])
    ELSE loop_connect(
            [s EXCEPT !.client.reconnecting = TRUE,
                      !.tasks[t].wait_time = 1,
                      !.tasks[t].timeout = 2,
                      !.tasks[t].protocol = s.client.protocol], t)

\* gather()'s _done_callback for one child; results are the results of the
\* children in the order they end, rooms (history) is the registry when
\* _rejoin was called
gather_done_callback(s, t, out) ==
    LET g == s.tasks[t].gather
        orphans == [u \in TaskIds |->
                      IF s.tasks[u].kind = "rq" /\ s.tasks[u].parent = t
                      THEN [s.tasks[u] EXCEPT !.parent = 0]
                      ELSE s.tasks[u]]
    IN  IF g.done THEN s
        ELSE IF IsExc(out)
        THEN call_soon([s EXCEPT !.tasks = [orphans EXCEPT
                                    ![t].gather.done = TRUE,
                                    ![t].gather.out = out]],
                       [k |-> "wake", t |-> t, r |-> 0])
        ELSE IF g.finished + 1 = g.n
        THEN call_soon([s EXCEPT !.tasks[t].gather.done = TRUE,
                                 !.tasks[t].gather.finished = g.n,
                                 !.tasks[t].gather.results = Append(@, out.res)],
                       [k |-> "wake", t |-> t, r |-> 0])
        ELSE [s EXCEPT !.tasks[t].gather.finished = @ + 1,
                       !.tasks[t].gather.results = Append(@, out.res)]

\* an _on_connection_lost that does not look whether the protocol is the
\* current one
_on_connection_lost_any(s, p) ==
    LET s0 == [s EXCEPT !.last = [op |-> "connection_lost", p |-> p,
                                  pending |-> Len(s.protos[p].requests),
                                  current |-> s.client.protocol = p]]
    IN  IF s.client.reconnect
        THEN ensure_future([s0 EXCEPT !.client.protocol = 0], ReconnectTask)
        ELSE [s0 EXCEPT !.client.protocol = 0]

\* Client._on_connection_lost
_on_connection_lost(s, p) ==
    LET s0 == [s EXCEPT !.last = [op |-> "connection_lost", p |-> p,
                                  pending |-> Len(s.protos[p].requests),
                                  current |-> s.client.protocol = p]]
    IN  IF s.client.protocol # p THEN s0
        ELSE IF s.client.reconnect
        THEN ensure_future([s0 EXCEPT !.client.protocol = 0], ReconnectTask)
        ELSE [s0 EXCEPT !.client.protocol = 0]

\* _on_event that does not look at self._reconnect
_on_event_always(s, p, pkg) ==
    LET s0 == [s EXCEPT !.last = [op |-> "_on_event", p |-> p, pkg |-> pkg]]
    IN  IF pkg.tp = ON_NODE_STATUS /\ pkg.data.status = "SHUTTING_DOWN"
        THEN ensure_future(s0, ReconnectTask)
        ELSE s0

\* Client._on_event: a node status may launch a reconnect, an event with
\* a room id gets a task for _on_room, a warning is logged
_on_event(s, p, pkg) ==
    LET s0 == [s EXCEPT !.last = [op |-> "_on_event", p |-> p, pkg |-> pkg]]
    IN  IF pkg.tp = ON_NODE_STATUS
        THEN IF s.client.reconnect /\ pkg.data.status = "SHUTTING_DOWN"
             THEN ensure_future(s0, ReconnectTask)
             ELSE s0
        ELSE IF "id" \in DOMAIN pkg.data
        THEN ensure_future(
                [s0 EXCEPT !.client.received = @ + 1],
                OnRoomTask(pkg, s.client.received + 1,
                           RegIndex(s.client.rooms, pkg.data.id) = 0))
        ELSE s0

\* _Protocol._handle_package
_handle_package(s, p, pkg) ==
    IF pkg.tp \in _PROTO_RESPONSE_MAP THEN _on_response(s, p, pkg)
    ELSE IF pkg.tp \in _PROTO_EVENTS THEN _on_event(s, p, pkg)
    ELSE [s EXCEPT !.last = [op |-> "unsupported", p |-> p, pkg |-> pkg]]

\* the coroutine that awaits wait_closed() on connection p
WaitClosedTask(p, gap) ==
    [kind |-> "wc", pc |-> "closed", src |-> "app", p |-> p, gap |-> gap]

\* close_future.set_result(None): the coroutine awaiting the future (the
\* application awaits wait_closed() in one coroutine) is woken with call_soon
close_future_set_result(s, p) ==
    LET ws == {t \in TaskIds : /\ s.tasks[t].kind = "wc"
                               /\ s.tasks[t].pc = "closed"
                               /\ s.tasks[t].p = p}
    IN  IF ~s.protos[p].close_future \/ ws = {} THEN s
        ELSE LET t == CHOOSE t \in ws : TRUE
             IN  call_soon([s EXCEPT !.tasks[t].pc = "woken"],
                           [k |-> "wake", t |-> t, r |-> 0])

\* connection_lost that tells the manager before it cancels the requests
connection_lost_callback_first(s, p) ==
    LET s1 == _on_connection_lost(s, p)
        s2 == close_future_set_result(cancel_requests(s1, p), p)
    IN  [s2 EXCEPT !.protos[p].close_future = FALSE,
                   !.protos[p].transport = FALSE]

\* Protocol.connection_lost
connection_lost(s, p) ==
    LET s1 == close_future_set_result(cancel_requests(s, p), p)
        s2 == [s1 EXCEPT !.protos[p].close_future = FALSE,
                         !.protos[p].transport = FALSE]
    IN  _on_connection_lost(s2, p)

\* transport.close(): the reader is removed (callbacks of data already read
\* are dropped) and connection_lost is scheduled with call_soon
transport_close(s, p, by) ==
    IF s.protos[p].closing THEN s
    ELSE call_soon([s EXCEPT !.protos[p].closing = TRUE,
                             !.protos[p].closedby = by],
                   [k |-> "lost", p |-> p])

\* Protocol.data_received with one whole package
data_received(s, p, pkg) ==
    IF s.protos[p].closing THEN s ELSE _handle_package(s, p, pkg)

\* ------------------------------------------------------------ the frames
\* struct.Struct('<IHBB'): length (4 bytes), pid (2 bytes), tp and
\* checkbit (1 byte each), little-endian
st_package_size == 8

ByteOf(n, i) == (n \div (256 ^ i)) % 256

\* st_package.pack(length, pid, tp, checkbit)
st_package_pack(length, pid, tp, checkbit) ==
    <<ByteOf(length, 0), ByteOf(length, 1), ByteOf(length, 2),
      ByteOf(length, 3), ByteOf(pid, 0), ByteOf(pid, 1), tp, checkbit>>

\* st_package.unpack_from(barray, offset=0); the integers of TLC end at
\* 2^31 - 1: a highest byte of length above 126 is taken as 126, which
\* still is a length of more bytes than any buffer here holds
st_package_unpack_from(barray) ==
    [length |-> barray[1] + 256 * barray[2] + 65536 * barray[3]
                + 16777216 * (IF barray[4] > 126 THEN 126 ELSE barray[4]),
     pid |-> barray[5] + 256 * barray[6],
     tp |-> barray[7],
     checkbit |-> barray[8]]

\* a ^ b on integers of n bits
RECURSIVE BitXor(_, _, _)
BitXor(a, b, n) ==
    IF n = 0 THEN 0
    ELSE ((a + b) % 2) + 2 * BitXor(a \div 2, b \div 2, n - 1)

\* msgpack.unpackb on the objects a server sends here: nil (0xc0) is None,
\* a positive fixint (0x00..0x7f) is that integer (kept as [val |-> n]),
\* a fixarray of one positive fixint (0x91 n) is a list (kept as
\* [list |-> <<n>>]); 0xc1 is no MessagePack and raises, as do bytes that
\* end early or go on after the object
msgpack_unpackb(bytes) ==
    IF bytes = <<192>> THEN [ok |-> TRUE, obj |-> NoData]
    ELSE IF Len(bytes) = 1 /\ bytes[1] \in 0..127
    THEN [ok |-> TRUE, obj |-> [val |-> bytes[1]]]
    ELSE IF Len(bytes) = 2 /\ bytes[1] = 145 /\ bytes[2] \in 0..127
    THEN [ok |-> TRUE, obj |-> [list |-> <<bytes[2]>>]]
    ELSE [ok |-> FALSE, obj |-> NoData]

\* Package.__init__: the header is unpacked; nothing looks at checkbit
Package(barray) ==
    LET h == st_package_unpack_from(barray)
    IN  [length |-> h.length, pid |-> h.pid, tp |-> h.tp,
         checkbit |-> h.checkbit, total |-> st_package_size + h.length,
         data |-> NoData]

\* Package.extract_data_from / read_data_from: the payload of the package
\* is unpacked, None when length is 0; ok tells that nothing was raised
Package_data(pkg, message) ==
    IF pkg.length = 0 THEN [ok |-> TRUE, obj |-> NoData]
    ELSE msgpack_unpackb(
            SubSeq(message, st_package_size + 1,
                   IF pkg.total < Len(message) THEN pkg.total
                   ELSE Len(message)))

\* self._handle_package(pkg) as the receive paths call it
Handle(s, p, pkg) ==
    _handle_package(
        [s EXCEPT !.protos[p].handled =
                    IF s.protos[p].sent = <<>> THEN @ ELSE Append(@, pkg)],
        p, pkg)

\* the while loop of Protocol.data_received on the buffered bytes
RECURSIVE data_received_loop(_, _)
data_received_loop(s, p) ==
    LET buf == s.protos[p]._buffered_data
        size == Len(buf)
        s1 == IF s.protos[p].package = NoData /\ size >= st_package_size
              THEN [s EXCEPT !.protos[p].package = Package(buf)]
              ELSE s
        pkg == s1.protos[p].package
        d == Package_data(pkg, buf)
        rest == SubSeq(buf, pkg.total + 1, size)
    IN  IF buf = <<>> THEN s
        ELSE IF pkg = NoData THEN s
        ELSE IF size < pkg.total THEN s1
        ELSE IF ~d.ok
        THEN [s1 EXCEPT !.protos[p]._buffered_data = <<>>,
                        !.protos[p].package = NoData,
                        !.last = [op |-> "unpack_failed", p |-> p, pkg |-> pkg]]
        ELSE data_received_loop(
                [Handle(
                    [s1 EXCEPT !.protos[p]._buffered_data = rest], p,
                    [pkg EXCEPT !.data = d.obj])
                 EXCEPT !.protos[p].package = NoData], p)

\* a data_received with `if` for `while`: one package for each call
Protocol_data_received_once(s, p, data) ==
    LET s0 == [s EXCEPT !.protos[p]._buffered_data = @ \o data,
                        !.last = [op |-> "buffered", p |-> p]]
        buf == s0.protos[p]._buffered_data
        size == Len(buf)
        s1 == IF s0.protos[p].package = NoData /\ size >= st_package_size
              THEN [s0 EXCEPT !.protos[p].package = Package(buf)]
              ELSE s0
        pkg == s1.protos[p].package
        d == Package_data(pkg, buf)
        rest == SubSeq(buf, pkg.total + 1, size)
    IN  IF s.protos[p].closing THEN s
        ELSE IF pkg = NoData THEN s0
        ELSE IF size < pkg.total THEN s1
        ELSE IF ~d.ok
        THEN [s1 EXCEPT !.protos[p]._buffered_data = <<>>,
                        !.protos[p].package = NoData,
                        !.last = [op |-> "unpack_failed", p |-> p, pkg |-> pkg]]
        ELSE [Handle([s1 EXCEPT !.protos[p]._buffered_data = rest], p,
                     [pkg EXCEPT !.data = d.obj])
              EXCEPT !.protos[p].package = NoData]

\* Protocol.data_received(data): the bytes read from the socket
Protocol_data_received(s, p, data) ==
    IF s.protos[p].closing THEN s
    ELSE data_received_loop(
            [s EXCEPT !.protos[p]._buffered_data = @ \o data,
                      !.last = [op |-> "buffered", p |-> p]], p)

\* the body of the loop of ProtocolWS._recv_loop for one message: a message
\* shorter than a header makes unpack_from raise
_recv_loop(s, p, data) ==
    LET pkg == Package(data)
        d == Package_data(pkg, data)
    IN  IF s.protos[p].closing THEN s
        ELSE IF Len(data) < st_package_size
        THEN [s EXCEPT !.last = [op |-> "unpack_failed", p |-> p,
                                 pkg |-> NoData]]
        ELSE IF ~d.ok
        THEN [s EXCEPT !.last = [op |-> "unpack_failed", p |-> p, pkg |-> pkg]]
        ELSE Handle(s, p, [pkg EXCEPT !.data = d.obj])

\* Client.close
close(s) ==
    LET p == s.client.protocol
        s0 == [s EXCEPT !.client.closes = @ + 1,
                        !.client.closed_p = IF is_connected(s) THEN p ELSE 0,
                        !.last = [op |-> "close", p |-> p,
                                  connected |-> is_connected(s)]]
    IN  IF is_connected(s)
        THEN transport_close([s0 EXCEPT !.client.reconnect = FALSE], p, "close")
        ELSE s0

\* Client.wait_closed up to its await: gap tells that the loop has run
\* since close() returned
wait_closed(s, gap) ==
    LET p == s.client.protocol
        t == FreeTask(s.tasks)
        s0 == [s EXCEPT !.client.waits = @ + 1]
    IN  IF p # 0 /\ s.protos[p].close_future
        THEN IF t = 0 THEN [s EXCEPT !.full = TRUE]
             ELSE [s0 EXCEPT !.tasks[t] = WaitClosedTask(p, gap),
                             !.last = [op |-> "wait_closed", t |-> t, p |-> p]]
        ELSE [s0 EXCEPT !.last = [op |-> "done", t |-> 0,
                                  task |-> WaitClosedTask(p, gap),
                                  out |-> [res |-> NoData]]]

\* a task woken by the future or the sleep it awaits
Resume(s, t) ==
    LET tk == s.tasks[t]
    IN  CASE tk.kind = "rq" /\ tk.pc = "lock" /\ tk.src # "no_join" ->
                join_locked(s, t)
          [] tk.kind = "rq" /\ tk.pc = "lock" /\ tk.src = "no_join" ->
                no_join_locked(s, t)
          [] tk.kind = "rq" /\ tk.pc = "gate" -> join_gate(s, t)
          [] tk.kind = "rq" /\ tk.pc = "gate_cancel" -> join_gate_cancelled(s, t)
          [] tk.kind = "rq" /\ tk.pc \notin {"lock", "gate", "gate_cancel"} ->
                _write_pkg_resume(s, t)
          [] tk.kind = "or" -> _on_room_woken(s, t)
          [] tk.kind = "oj" /\ tk.pc = "run" -> InnerRoom_on_join_tested(s, t)
          [] tk.kind = "oj" /\ tk.pc # "run" ->
                on_join_end(s, t, [res |-> NoData])
          [] tk.kind = "wc" -> Finish(s, t, [res |-> NoData])
          [] tk.kind = "cn" -> ConnectResume(s, t)
          [] tk.kind = "rc" /\ tk.pc = "connected" -> loop_connected(s, t)
          [] tk.kind = "rc" /\ tk.pc = "ping" -> loop_pinged(s, t)
          [] tk.kind = "rc" /\ tk.pc = "auth" -> loop_authed(s, t)
          [] tk.kind = "rc" /\ tk.pc = "rejoin" -> loop_rejoined(s, t)
          [] tk.kind = "rc" /\ tk.pc = "slept" -> loop_slept(s, t)

\* the first step of a new task
Start(s, t) ==
    CASE s.tasks[t].kind = "rq" -> _write_pkg_start(s, t)
      [] s.tasks[t].kind = "rc" -> reconnect(s, t)
      [] s.tasks[t].kind = "or" -> _on_room(s, t)
      [] s.tasks[t].kind = "oj" -> on_join_start(s, t)

\* ------------------------------------------------------------- actions
\* the values a server answers a query with
Vals == {"hello", "world"}
\* the error codes a server answers with
ErrCodes == {-55, -51}
\* request timeouts: 0 is None
Timeouts == {0, 5}

\* the room ids the code of a room evaluates to
CodeIds == {77, 79}

\* the answers of a server to request r; the id a code evaluates to is
\* [id |-> n], the answer of the is_room query [is_room |-> b]
Answers(r) ==
    {[pid |-> futs[r].pid, tp |-> RES_ERROR, data |-> [error_code |-> c]] :
        c \in ErrCodes}
    \cup
    CASE futs[r].tp = REQ_PING ->
            {[pid |-> futs[r].pid, tp |-> RES_PING, data |-> NoData]}
      [] futs[r].tp = REQ_AUTH ->
            {[pid |-> futs[r].pid, tp |-> RES_OK, data |-> NoData]}
      [] futs[r].tp = REQ_JOIN ->
            {[pid |-> futs[r].pid, tp |-> RES_DATA, data |-> [joined |-> j]] :
                j \in BOOLEAN}
      [] futs[r].src \in {"resolve", "no_join_id"} ->
            {[pid |-> futs[r].pid, tp |-> RES_DATA, data |-> [id |-> id]] :
                id \in CodeIds}
            \cup {[pid |-> futs[r].pid, tp |-> RES_DATA,
                   data |-> [val |-> "hello"]]}
      [] futs[r].src = "no_join_is_room" ->
            {[pid |-> futs[r].pid, tp |-> RES_DATA,
              data |-> [is_room |-> b]] : b \in BOOLEAN}
      [] OTHER ->
            {[pid |-> futs[r].pid, tp |-> RES_DATA, data |-> [val |-> v]] :
                v \in Vals}

\* the rooms the application has
RoomChoices ==
    {[id |-> 77, scope |-> "//c", obj |-> 1],
     [id |-> 78, scope |-> "//c", obj |-> 2],
     [id |-> 79, scope |-> "//d", obj |-> 3]}

\* what on_join of the application's Room class does: it returns, it
\* awaits and then returns, or it raises
OnJoins == {"return", "await", "raise"}
Objs == {room.obj : room \in RoomChoices}
\* the rooms the application joins in the specification of room ids: one
\* made with its integer id, one made with code
CodeObjs == {1, 3}
RoomOf(o) == CHOOSE room \in RoomChoices : room.obj = o

\* unlocked (client._rooms or the _id of a room was written while
\* client._rooms_lock was not locked),
\* rooms_lock.woken, joins, received, closes, closed_p, waits, tried,
\* reconnects (the calls of reconnect() by the application) and, in
\* the rooms, stops, ended and made are history: the waiter that release()
\* has woken, the calls of join(), the room events received, the calls of
\* close(), the connection close() has closed, the calls of wait_closed(),
\* the nodes of the last connection attempts,
\* the calls of on_leave/on_delete after
\* the room was registered, the on_join calls that have ended, and how many
\* had ended when a gate was made
NewClient(auto_reconnect) ==
    [protocol |-> 0, reconnect |-> auto_reconnect,
     ensure |-> auto_reconnect, reconnecting |-> FALSE,
     pool |-> 0, pool_idx |-> 0, rooms |-> <<>>,
     joins |-> 0, received |-> 0,
     closes |-> 0, closed_p |-> 0, waits |-> 0, tried |-> <<>>,
     reconnects |-> 0, unlocked |-> FALSE,
     rooms_lock |-> [locked |-> FALSE, waiters |-> <<>>, woken |-> FALSE]]

InitApp(auto_reconnect, on_join) ==
    /\ ready = <<>>
    /\ batch = 0
    /\ protos = <<>>
    /\ futs = <<>>
    /\ tasks = [t \in TaskIds |-> Free]
    /\ client = NewClient(auto_reconnect)
    /\ objs = [o \in Objs |-> NewRoom(IntId(RoomOf(o).id), on_join)]
    /\ last = [op |-> "init"]

InitWith(auto_reconnect) == InitApp(auto_reconnect, "return")

\* the application calls client.connect(host, port)
UserConnect ==
    /\ ~is_connected(World)
    /\ \A t \in TaskIds : tasks[t].kind # "cn"
    /\ HasFree(tasks)
    /\ Len(protos) < MaxProto
    /\ LET t == FreeTask(tasks)
       IN  Commit([World EXCEPT
                !.client.pool = 1, !.client.pool_idx = 0,
                !.client.tried = <<0>>,
                !.tasks[t] = [kind |-> "cn", pc |-> "connect", src |-> "app",
                              node |-> 0, res |-> NoData],
                !.last = [op |-> "connect", t |-> t]])

\* the connection of a task waiting in _connect is made: connection_made
ConnectMade ==
    /\ AtBoundary
    /\ \E t \in TaskIds :
        /\ tasks[t] # Free /\ tasks[t].pc = "connect"
        /\ Commit(call_soon(
                [World EXCEPT
                    !.protos = Append(@, NewProtocol(tasks[t].node)),
                    !.tasks[t].pc = "connected",
                    !.tasks[t].res = [ok |-> TRUE, p |-> Len(protos) + 1],
                    !.last = [op |-> "connection_made", p |-> Len(protos) + 1]],
                [k |-> "wake", t |-> t, r |-> 0]))

ConnectOK ==
    /\ Len(protos) < MaxProto
    /\ ConnectMade

\* the connection attempt is refused or times out
ConnectFail ==
    /\ AtBoundary
    /\ \E t \in TaskIds, e \in {"ConnectionRefusedError", "TimeoutError"} :
        /\ tasks[t] # Free /\ tasks[t].pc = "connect"
        /\ tasks[t].kind = "rc" => tasks[t].timeout < 2 + MaxRetry
        /\ Commit(call_soon(
                [World EXCEPT
                    !.tasks[t].pc = "connected",
                    !.tasks[t].res = [ok |-> FALSE, exc |-> e],
                    !.last = [op |-> "connect_failed", t |-> t]],
                [k |-> "wake", t |-> t, r |-> 0]))

\* the application calls query()/run(); on a client made with
\* auto_reconnect or connected to a pool it does so while the client is
\* connected and no reconnect runs
UserRequest ==
    /\ HasFree(tasks)
    /\ (client.ensure \/ client.pool > 1)
        => (is_connected(World) /\ ~client.reconnecting)
    /\ Cardinality({r \in 1..Len(futs) : futs[r].src = "app"})
         + Cardinality({t \in TaskIds : tasks[t].kind = "rq"
                            /\ tasks[t].src = "app" /\ tasks[t].pc # "wait"})
         < (IF client.pool > 1 THEN MaxAppPool ELSE MaxApp)
    /\ \E timeout \in Timeouts :
        LET t == FreeTask(tasks)
            req == [tp |-> REQ_QUERY, data |-> [code |-> "noop"],
                    timeout |-> timeout]
        IN  Commit(_write_pkg_start(
                [World EXCEPT !.tasks[t] = RequestTask(req, "app", 0)], t))

\* the rooms the server subscribes a connection to when it answers JOIN
Joined(r, pkg) ==
    IF futs[r].tp = REQ_JOIN /\ pkg.tp = RES_DATA /\ pkg.data.joined
       /\ "ids" \in DOMAIN futs[r].data
    THEN {futs[r].data.ids[i] : i \in 1..Len(futs[r].data.ids)}
    ELSE {}

\* a response of the server arrives on a connection
ServerReply ==
    /\ AtBoundary
    /\ \E r \in 1..Len(futs) :
        LET p == futs[r].p
        IN  /\ ~futs[r].answered
            /\ ~protos[p].closing /\ ~protos[p].eof
            /\ \E pkg \in Answers(r) :
                /\ (client.ensure /\ pkg.tp = RES_ERROR
                        /\ _ERRMAP(pkg.data.error_code) \in {"NodeError", "AuthError"}
                        /\ futs[r].st = "pending"
                        /\ tasks[futs[r].owner].kind = "rq")
                    => tasks[futs[r].owner].retries < MaxRetry
                /\ Commit(call_soon(
                    [World EXCEPT !.futs[r].answered = TRUE,
                                  !.protos[p].subs = @ \cup Joined(r, pkg),
                                  !.last = [op |-> "reply", p |-> p, pkg |-> pkg]],
                    [k |-> "data", p |-> p, pkg |-> pkg]))

\* the error codes and messages of the RES_ERROR packages a server sends:
\* the published codes, their neighbours and codes far from them
ErrInputs == (-65..-49) \cup (-7..0) \cup {-100, 5}
ErrMsgs == {"nope", "oops"}

\* a RES_ERROR response of the server arrives on a connection
ServerError ==
    /\ AtBoundary
    /\ \E r \in 1..Len(futs), c \in ErrInputs, m \in ErrMsgs :
        LET p == futs[r].p
            pkg == [pid |-> futs[r].pid, tp |-> RES_ERROR,
                    data |-> [error_code |-> c, error_msg |-> m]]
        IN  /\ ~futs[r].answered
            /\ ~protos[p].closing /\ ~protos[p].eof
            /\ Commit(call_soon(
                    [World EXCEPT !.futs[r].answered = TRUE,
                                  !.last = [op |-> "reply", p |-> p, pkg |-> pkg]],
                    [k |-> "data", p |-> p, pkg |-> pkg]))

\* the peer closes a connection, or it breaks
ServerEOF ==
    /\ AtBoundary
    /\ \E p \in 1..Len(protos) :
        /\ ~protos[p].closing /\ ~protos[p].eof
        /\ Commit(call_soon(
                [World EXCEPT !.protos[p].eof = TRUE,
                              !.last = [op |-> "eof", p |-> p]],
                [k |-> "eof", p |-> p]))

\* the sleep of a request's _timer task is over
TimerExpire ==
    /\ AtBoundary
    /\ \E r \in 1..Len(futs) :
        /\ futs[r].timer = "armed"
        /\ Commit(call_soon(
                [World EXCEPT !.futs[r].timer = "due",
                              !.last = [op |-> "expire", fut |-> r]],
                [k |-> "tfire", r |-> r]))

\* the loop runs Protocol.data_received
RunData ==
    /\ HeadIs("data")
    /\ Commit(data_received(
            [PopReady(World) EXCEPT !.last = [op |-> "dropped"]],
            Head(ready).p, Head(ready).pkg))

\* the loop runs the read callback that finds the connection closed
RunEOF ==
    /\ HeadIs("eof")
    /\ Commit(transport_close(
            [PopReady(World) EXCEPT !.last = [op |-> "run_eof", p |-> Head(ready).p]],
            Head(ready).p, "peer"))

\* the loop runs Protocol.connection_lost
RunLost ==
    /\ HeadIs("lost")
    /\ Commit(connection_lost(PopReady(World), Head(ready).p))

\* the loop ends the sleep of a _timer task: the task is woken with call_soon
RunTimerFire ==
    /\ HeadIs("tfire")
    /\ LET r == Head(ready).r
           s == [PopReady(World) EXCEPT !.last = [op |-> "tfire", fut |-> r]]
       IN  Commit(IF futs[r].timer = "due"
                  THEN call_soon([s EXCEPT !.futs[r].timer = "waking"],
                                 [k |-> "twake", r |-> r])
                  ELSE s)

\* the loop runs a woken _timer task
RunTimerWake ==
    /\ HeadIs("twake")
    /\ LET r == Head(ready).r
           s == [PopReady(World) EXCEPT !.last = [op |-> "twake", fut |-> r]]
       IN  Commit(IF futs[r].timer = "waking"
                  THEN _timer(s, futs[r].p, futs[r].pid, r)
                  ELSE s)

\* the loop runs a task woken by what it awaited
RunWake ==
    /\ HeadIs("wake")
    /\ Commit(Resume(PopReady(World), Head(ready).t))

\* the application calls client.connect_pool(pool, auth)
UserConnectPool ==
    /\ client.pool = 0
    /\ HasFree(tasks)
    /\ \E idx \in 0..(PoolSize - 1) :
        LET t == FreeTask(tasks)
        IN  Commit(reconnect(
                [World EXCEPT !.client.pool = PoolSize,
                              !.client.pool_idx = idx,
                              !.tasks[t] = ReconnectTask], t))

\* the application calls client.connect_pool(pool, auth) with a pool of two
\* or more nodes
UserConnectPoolN ==
    /\ client.pool = 0
    /\ HasFree(tasks)
    /\ \E n \in 2..MaxPool : \E idx \in 0..(n - 1) :
        LET t == FreeTask(tasks)
        IN  Commit(reconnect(
                [World EXCEPT !.client.pool = n,
                              !.client.pool_idx = idx,
                              !.tasks[t] = ReconnectTask], t))

\* the connection attempt of a reconnect loop is refused or times out, one
\* attempt after the other
ConnectFailAny ==
    /\ AtBoundary
    /\ \E t \in TaskIds, e \in {"ConnectionRefusedError", "TimeoutError"} :
        /\ tasks[t].kind = "rc" /\ tasks[t].pc = "connect"
        /\ tasks[t].attempt < MaxAttempts
        /\ Commit(call_soon(
                [World EXCEPT
                    !.tasks[t].pc = "connected",
                    !.tasks[t].res = [ok |-> FALSE, exc |-> e],
                    !.last = [op |-> "connect_failed", t |-> t]],
                [k |-> "wake", t |-> t, r |-> 0]))

\* the application calls client.reconnect() while the client is connected
UserReconnect ==
    /\ client.pool >= 2
    /\ is_connected(World)
    /\ client.reconnects < MaxReconnect
    /\ HasFree(tasks)
    /\ LET t == FreeTask(tasks)
       IN  Commit(reconnect(
                [World EXCEPT !.client.reconnects = @ + 1,
                              !.tasks[t] = [ReconnectTask EXCEPT
                                                !.src = "reconnect"]], t))

\* a connection is made where the application calls reconnect()
ConnectOKSwitch ==
    /\ Len(protos) < MaxProtoSwitch
    /\ ConnectMade

\* the application calls room.join(client, wait=None) for a room with an
\* integer id: it joins its rooms, 77 first, while the client is connected
\* and no reconnect runs
UserJoin ==
    /\ client.pool # 0
    /\ HasFree(tasks)
    /\ client.joins < MaxRooms
    /\ is_connected(World) /\ ~client.reconnecting
    /\ \E room \in RoomChoices :
        /\ room.id # 77 => \E i \in 1..Len(client.rooms) : client.rooms[i].id = 77
        /\ \A i \in 1..Len(client.rooms) : client.rooms[i] # room
        /\ \A t \in TaskIds : tasks[t].src = "join" => tasks[t].room # room
        /\ LET t == FreeTask(tasks)
                req == [tp |-> REQ_JOIN,
                        data |-> [scope |-> room.scope, ids |-> <<room.id>>],
                        timeout |-> 0]
           IN  Commit(join(
                [World EXCEPT !.client.joins = @ + 1, !.tasks[t] =
                    [RequestTask(req, "join", 0) EXCEPT !.room = room]], t))

\* the application calls room.join(client, wait=None) for a room with an
\* integer id while the client is connected, also while a reconnect runs
UserJoinAnytime ==
    /\ client.pool # 0
    /\ HasFree(tasks)
    /\ client.joins < MaxRooms
    /\ is_connected(World)
    /\ \E room \in RoomChoices :
        /\ room.id # 77 => \E i \in 1..Len(client.rooms) : client.rooms[i].id = 77
        /\ \A i \in 1..Len(client.rooms) : client.rooms[i] # room
        /\ \A t \in TaskIds : tasks[t].src = "join" => tasks[t].room # room
        /\ LET t == FreeTask(tasks)
                req == [tp |-> REQ_JOIN,
                        data |-> [scope |-> room.scope, ids |-> <<room.id>>],
                        timeout |-> 0]
           IN  Commit(join(
                [World EXCEPT !.client.joins = @ + 1, !.tasks[t] =
                    [RequestTask(req, "join", 0) EXCEPT !.room = room]], t))

\* the server pushes a node-status event or a warning
ServerEvent ==
    /\ AtBoundary
    /\ \E p \in 1..Len(protos) :
        /\ ~protos[p].closing /\ ~protos[p].eof
        /\ protos[p].events < MaxEvents
        /\ \E pkg \in
              {[pid |-> 0, tp |-> ON_NODE_STATUS,
                data |-> [status |-> st, id |-> protos[p].node]] :
                    st \in {"SHUTTING_DOWN", "READY"}}
              \cup {[pid |-> 0, tp |-> ON_WARN,
                      data |-> [warn_msg |-> "w", warn_code |-> 1]]} :
            Commit(call_soon(
                [World EXCEPT !.protos[p].events = @ + 1,
                              !.last = [op |-> "event", p |-> p, pkg |-> pkg]],
                [k |-> "data", p |-> p, pkg |-> pkg]))

\* the wait argument of join(): 0 is None
JoinWaits == {0, 60}

\* the application calls room.join(client, wait) for one of its rooms with
\* an integer id, 77 first; it may join a room again
UserRoomJoin ==
    /\ client.pool # 0
    /\ HasFree(tasks)
    /\ client.joins < MaxRooms
    /\ \E room \in RoomChoices, wait \in JoinWaits :
        /\ room.id \in {77, 78}
        /\ room.id = 77 \/ client.joins > 0
        /\ LET t == FreeTask(tasks)
                req == [tp |-> REQ_JOIN,
                        data |-> [scope |-> room.scope, ids |-> <<room.id>>],
                        timeout |-> 0]
           IN  Commit(join(
                [World EXCEPT !.client.joins = @ + 1, !.tasks[t] =
                    [RequestTask(req, "join", 0) EXCEPT !.room = room,
                                                        !.wait = wait]], t))

\* the application calls room.join(client, wait=None) for a room made with
\* an integer id or with ThingsDB code
UserRoomJoinCode ==
    /\ HasFree(tasks)
    /\ client.joins < MaxCalls
    /\ \E o \in CodeObjs :
        LET t == FreeTask(tasks)
            room == [RoomOf(o) EXCEPT !.id = 0]
        IN  Commit(join(
                [World EXCEPT !.client.joins = @ + 1, !.tasks[t] =
                    [RequestTask(JoinReq(room), "join", 0) EXCEPT
                        !.room = room]], t))

\* the application calls room.no_join(client)
UserNoJoin ==
    /\ HasFree(tasks)
    /\ client.joins < MaxCalls
    /\ \E o \in CodeObjs :
        LET t == FreeTask(tasks)
            room == [RoomOf(o) EXCEPT !.id = 0]
        IN  Commit(no_join(
                [World EXCEPT !.client.joins = @ + 1, !.tasks[t] =
                    [RequestTask(JoinReq(room), "no_join", 0) EXCEPT
                        !.room = room]], t))

\* the rooms of waiters for the lock
LockObjs == {1, 2}

\* misc.lock.lock() of a waiter: `acquire` has returned immediately = false
\* with the id of the waiter's room; `room = _InnerRoom(room_id, ..)` and
\* `await room.join(client, wait=None)`; the waiter then awaits room.future
UserLock ==
    /\ HasFree(tasks)
    /\ \E o \in LockObjs :
        /\ objs[o].on_init = 0
        /\ \A t \in TaskIds : tasks[t].kind = "rq" => tasks[t].room.obj # o
        /\ LET t == FreeTask(tasks)
                room == RoomOf(o)
           IN  Commit(join(
                [World EXCEPT !.client.joins = @ + 1, !.tasks[t] =
                    [RequestTask(JoinReq(room), "join", 0) EXCEPT
                        !.room = room]], t))

\* the object of the room with this id
ObjOf(id) == (CHOOSE room \in RoomChoices : room.id = id).obj

\* what the node answers to a request of a waiter: the JOIN with the ids
\* (the room exists), the procedure `test` with whether the room has the
\* name 'go'
LockAnswer(r) ==
    IF futs[r].tp = REQ_JOIN
    THEN [pid |-> futs[r].pid, tp |-> RES_DATA, data |-> [joined |-> TRUE]]
    ELSE [pid |-> futs[r].pid, tp |-> RES_DATA,
          data |-> [ok |-> objs[ObjOf(futs[r].data.id)].name = "go"]]

\* the node answers a request of a waiter; with the answer to JOIN it
\* subscribes the connection to the room
ServerLockReply ==
    /\ AtBoundary
    /\ \E r \in 1..Len(futs) :
        LET p == futs[r].p
            pkg == LockAnswer(r)
        IN  /\ ~futs[r].answered
            /\ Commit(call_soon(
                    [World EXCEPT !.futs[r].answered = TRUE,
                                  !.protos[p].subs = @ \cup Joined(r, pkg),
                                  !.last = [op |-> "reply", p |-> p, pkg |-> pkg]],
                    [k |-> "data", p |-> p, pkg |-> pkg]))

\* the node sends ON_ROOM_JOIN to a connection it has subscribed to a room
ServerJoinEvent ==
    /\ AtBoundary
    /\ \E p \in 1..Len(protos) : \E id \in protos[p].subs :
        LET pkg == [pid |-> 0, tp |-> ON_ROOM_JOIN, data |-> [id |-> id]]
        IN  /\ id \notin protos[p].join_events
            /\ Commit(call_soon(
                    [World EXCEPT !.protos[p].join_events = @ \cup {id},
                                  !.last = [op |-> "event", p |-> p, pkg |-> pkg]],
                    [k |-> "data", p |-> p, pkg |-> pkg]))

\* the hand-over of the lock by the node (Lock.go): the room of the first
\* waiter gets the name 'go' and 'go' is emitted to the connections that
\* are subscribed to the room
ServerHandOver ==
    /\ AtBoundary
    /\ \E o \in LockObjs :
        LET id == RoomOf(o).id
            pkg == [pid |-> 0, tp |-> ON_ROOM_EMIT,
                    data |-> [id |-> id, event |-> "go", args |-> <<>>]]
            s0 == [World EXCEPT !.objs[o].name = "go",
                                !.last = [op |-> "go", o |-> o,
                                          sent |-> \E p \in 1..Len(protos) :
                                                    id \in protos[p].subs,
                                          init |-> objs[o].on_init]]
        IN  /\ objs[o].name # "go"
            /\ \A u \in LockObjs : u < o => objs[u].name = "go"
            /\ Commit(IF id \in protos[1].subs
                      THEN call_soon(s0, [k |-> "data", p |-> 1, pkg |-> pkg])
                      ELSE s0)

\* the events a server pushes for a room
RoomPackages(id) ==
    {[pid |-> 0, tp |-> tp, data |-> [id |-> id]] :
        tp \in {ON_ROOM_JOIN, ON_ROOM_LEAVE, ON_ROOM_DELETE}}
    \cup {[pid |-> 0, tp |-> ON_ROOM_EMIT,
           data |-> [id |-> id, event |-> e, args |-> <<>>]] :
            e \in {"new-msg", "other"}}

\* the server pushes an event of a room the connection has joined
RoomEvent ==
    /\ AtBoundary
    /\ \E p \in 1..Len(protos) :
        /\ ~protos[p].closing /\ ~protos[p].eof
        /\ protos[p].events < MaxRoomEvents
        /\ \E id \in protos[p].subs : \E pkg \in RoomPackages(id) :
            Commit(call_soon(
                [World EXCEPT !.protos[p].events = @ + 1,
                              !.last = [op |-> "event", p |-> p, pkg |-> pkg]],
                [k |-> "data", p |-> p, pkg |-> pkg]))

\* the time join() waits for the first on_join is over
GateTimeout ==
    /\ AtBoundary
    /\ \E t \in TaskIds :
        /\ tasks[t].pc = "gate" /\ tasks[t].handle = "armed"
        /\ Commit(call_soon(
                [World EXCEPT !.tasks[t].handle = "fired",
                              !.last = [op |-> "wait_over", t |-> t]],
                [k |-> "rel", t |-> t, o |-> tasks[t].room.obj,
                 g |-> tasks[t].g]))

\* the loop runs _release_waiter
RunReleaseWaiter ==
    /\ HeadIs("rel")
    /\ Commit(_release_waiter(
            [PopReady(World) EXCEPT !.last = [op |-> "_release_waiter"]],
            Head(ready)))

\* an asyncio.sleep of a task is over
SleepExpire ==
    /\ AtBoundary
    /\ \E t \in TaskIds :
        /\ tasks[t] # Free /\ tasks[t].pc = "sleep"
        /\ Commit(call_soon(
                [World EXCEPT !.tasks[t].pc = "sleep_due",
                              !.last = [op |-> "sleep_over", t |-> t]],
                [k |-> "sfire", t |-> t]))

\* the 10 seconds after a reconnect are over
GraceExpire ==
    /\ AtBoundary
    /\ \E p \in 1..Len(protos) :
        /\ protos[p].grace = "armed"
        /\ Commit(call_soon(
                [World EXCEPT !.protos[p].grace = "due",
                              !.last = [op |-> "grace_over", p |-> p]],
                [k |-> "close", p |-> p]))

\* the loop runs the first step of a task made by ensure_future
RunStep ==
    /\ HeadIs("step")
    /\ Commit(Start(PopReady(World), Head(ready).t))

\* the loop runs the done-callback gather() put on a child
RunGatherCallback ==
    /\ HeadIs("gcb")
    /\ Commit(gather_done_callback(
            [PopReady(World) EXCEPT !.last = [op |-> "gather_callback"]],
            Head(ready).t, Head(ready).out))

\* the loop ends a sleep: the sleeping task is woken with call_soon
RunSleepFire ==
    /\ HeadIs("sfire")
    /\ LET t == Head(ready).t
       IN  Commit(call_soon(
                [PopReady(World) EXCEPT !.tasks[t].pc = "slept",
                                        !.last = [op |-> "sfire", t |-> t]],
                [k |-> "wake", t |-> t, r |-> 0]))

\* the loop runs call_later(10.0, protocol.transport.close)
RunClose ==
    /\ HeadIs("close")
    /\ LET p == Head(ready).p
       IN  Commit(transport_close(
                [PopReady(World) EXCEPT !.protos[p].grace = "fired",
                                        !.last = [op |-> "grace_close", p |-> p]],
                p, "client"))

\* the payloads a server sends: none, the integer 42, and a byte that is no
\* MessagePack
Bodies == {<<>>, <<42>>, <<193>>}

\* the check bytes a server or a broken line gives a frame of type tp: the
\* right one, tp itself and 0
Checks(tp) == {BitXor(tp, 255, 8), tp, 0}

\* where the bytes of a frame are cut in two reads of the socket: nowhere,
\* or inside the header
Cuts == {0, 3}

\* the bytes of a frame are given to the connection: in one or two reads of
\* a socket, in one message of a websocket
Deliver(s, p, frame, cut) ==
    IF s.protos[p].ws \/ cut = 0
    THEN call_soon(s, [k |-> "bytes", p |-> p, data |-> frame])
    ELSE call_soon(
            call_soon(s, [k |-> "bytes", p |-> p,
                          data |-> SubSeq(frame, 1, cut)]),
            [k |-> "bytes", p |-> p,
             data |-> SubSeq(frame, cut + 1, Len(frame))])

\* the server answers a request with a frame
ServerFrame ==
    /\ AtBoundary
    /\ \E r \in 1..Len(futs) :
        LET p == futs[r].p
        IN  /\ ~futs[r].answered
            /\ ~protos[p].closing /\ ~protos[p].eof
            /\ \E tp \in {RES_DATA}, body \in Bodies, cut \in Cuts :
                \E checkbit \in Checks(tp) :
                    LET frame == st_package_pack(Len(body), futs[r].pid, tp,
                                                 checkbit) \o body
                    IN  /\ ~protos[p].ws \/ cut = 0
                        /\ Commit(Deliver(
                            [World EXCEPT
                                !.futs[r].answered = TRUE,
                                !.last = [op |-> "frame", p |-> p]],
                            p, frame, cut))

\* the server pushes a warning or a frame of no known type
ServerPush ==
    /\ AtBoundary
    /\ \E p \in 1..Len(protos) :
        /\ ~protos[p].closing /\ ~protos[p].eof
        /\ protos[p].events < MaxEvents
        /\ \E tp \in {ON_WARN, 0}, body \in Bodies, cut \in Cuts :
            \E checkbit \in Checks(tp) :
                LET frame == st_package_pack(Len(body), 0, tp, checkbit)
                                \o body
                IN  /\ ~protos[p].ws \/ cut = 0
                    /\ Commit(Deliver(
                        [World EXCEPT
                            !.protos[p].events = @ + 1,
                            !.last = [op |-> "frame", p |-> p]],
                        p, frame, cut))

\* the loop runs Protocol.data_received with the bytes read, or the
\* _recv_loop task of a ProtocolWS goes on with the message received
RunBytes ==
    /\ HeadIs("bytes")
    /\ LET h == Head(ready)
           s == [PopReady(World) EXCEPT !.last = [op |-> "dropped"]]
       IN  Commit(IF protos[h.p].ws THEN _recv_loop(s, h.p, h.data)
                  ELSE Protocol_data_received(s, h.p, h.data))

\* the payloads of well-formed frames: none, 42 and [7]; and one byte that
\* is no MessagePack
GoodBodies == {<<>>, <<42>>, <<145, 7>>}
BadBody == <<193>>

\* an ON_WARN frame as a server packs it
EventFrame(body) ==
    st_package_pack(Len(body), 0, ON_WARN, BitXor(ON_WARN, 255, 8)) \o body

\* the streams of 1..MaxFrames frames with these payloads
Streams(bodies) ==
    UNION {[1..n -> {EventFrame(body) : body \in bodies}] :
            n \in 1..MaxFrames}

\* the bytes of a sequence of frames
RECURSIVE Flatten(_)
Flatten(frames) ==
    IF frames = <<>> THEN <<>> ELSE Head(frames) \o Flatten(Tail(frames))

\* the loop reads the next n bytes of the socket and calls data_received
SocketRead ==
    \E p \in 1..Len(protos) :
        /\ ~protos[p].ws /\ protos[p].wire # <<>>
        /\ \E n \in 1..Len(protos[p].wire) :
            Commit(Protocol_data_received(
                [World EXCEPT
                    !.protos[p].wire = SubSeq(@, n + 1, Len(@)),
                    !.last = [op |-> "read", p |-> p, n |-> n]],
                p, SubSeq(protos[p].wire, 1, n)))

\* `data = await self._proto.recv()` of ProtocolWS._recv_loop returns the
\* next message
MessageRecv ==
    \E p \in 1..Len(protos) :
        /\ protos[p].ws /\ protos[p].inbox # <<>>
        /\ Commit(_recv_loop(
                [World EXCEPT !.protos[p].inbox = Tail(@),
                              !.last = [op |-> "recv", p |-> p]],
                p, Head(protos[p].inbox)))

\* the application calls client.close(), before it connects or after its
\* connect_pool() has returned; with `wait` it goes on with
\* `await client.wait_closed()` in the same step of its coroutine
UserClose ==
    /\ client.closes < MaxClose
    /\ \/ client.pool = 0
       \/ \E p \in 1..Len(protos) : protos[p].stage = "ready"
    /\ \E wait \in BOOLEAN :
        Commit(IF wait THEN wait_closed(close(World), FALSE)
               ELSE close(World))

\* the application calls client.wait_closed() some time after close()
UserWaitClosed ==
    /\ client.closes > 0
    /\ client.waits < client.closes
    /\ last.op # "close"
    /\ Commit(wait_closed(World, TRUE))

\* the application calls connect_pool on a client it has not closed
UserConnectPoolOpen ==
    /\ client.closes = 0
    /\ UserConnectPool

Init == InitWith(FALSE)

Next ==
    \/ UserConnect
    \/ ConnectOK
    \/ ConnectFail
    \/ UserRequest
    \/ ServerReply
    \/ ServerEOF
    \/ TimerExpire
    \/ RunData
    \/ RunEOF
    \/ RunLost
    \/ RunTimerFire
    \/ RunTimerWake
    \/ RunWake

Spec == Init /\ [][Next]_vars

\* the connection manager: a client made with or without auto_reconnect
\* connects to a pool and sends requests; the server pushes events
InitConn == \E auto_reconnect \in BOOLEAN : InitWith(auto_reconnect)

NextConn ==
    \/ UserConnectPool
    \/ ConnectOK
    \/ ConnectFail
    \/ UserRequest
    \/ ServerReply
    \/ ServerEvent
    \/ ServerEOF
    \/ TimerExpire
    \/ SleepExpire
    \/ GraceExpire
    \/ RunData
    \/ RunEOF
    \/ RunLost
    \/ RunTimerFire
    \/ RunTimerWake
    \/ RunWake
    \/ RunStep
    \/ RunSleepFire
    \/ RunClose

SpecConn == InitConn /\ [][NextConn]_vars

\* requests of the application to a client made with auto_reconnect that
\* connects to a pool and loses connections
InitEnsure == InitWith(TRUE)

NextEnsure ==
    \/ UserConnectPool
    \/ ConnectOK
    \/ ConnectFail
    \/ UserRequest
    \/ ServerReply
    \/ ServerEOF
    \/ TimerExpire
    \/ SleepExpire
    \/ RunData
    \/ RunEOF
    \/ RunLost
    \/ RunTimerFire
    \/ RunTimerWake
    \/ RunWake
    \/ RunStep
    \/ RunSleepFire

SpecEnsure == InitEnsure /\ [][NextEnsure]_vars

\* rooms: a client made with auto_reconnect connects to a pool, joins rooms
\* and loses connections
InitRooms == InitWith(TRUE)

NextRooms ==
    \/ UserConnectPool
    \/ ConnectOK
    \/ ConnectFail
    \/ UserJoin
    \/ ServerReply
    \/ ServerEOF
    \/ TimerExpire
    \/ SleepExpire
    \/ RunData
    \/ RunEOF
    \/ RunLost
    \/ RunTimerFire
    \/ RunTimerWake
    \/ RunWake
    \/ RunStep
    \/ RunGatherCallback
    \/ RunSleepFire

SpecRooms == InitRooms /\ [][NextRooms]_vars

\* the room runtime: a client connects, the application joins its rooms
\* and the server pushes room events
InitEvents == \E on_join \in OnJoins : InitApp(FALSE, on_join)

NextEvents ==
    \/ UserConnect
    \/ ConnectOK
    \/ UserRoomJoin
    \/ ServerReply
    \/ RoomEvent
    \/ SleepExpire
    \/ GateTimeout
    \/ RunData
    \/ RunWake
    \/ RunStep
    \/ RunSleepFire
    \/ RunReleaseWaiter

SpecEvents == InitEvents /\ [][NextEvents]_vars

\* the error taxonomy: a strict client sends requests and the server
\* answers them with RES_ERROR packages of any code
InitErr == InitWith(FALSE)

NextErr ==
    \/ UserConnect
    \/ ConnectOK
    \/ UserRequest
    \/ ServerError
    \/ RunData
    \/ RunWake

SpecErr == InitErr /\ [][NextErr]_vars

\* the backoff: a client made with auto_reconnect connects to a pool whose
\* nodes refuse many attempts in a row, and loses the connection it gets
InitBackoff == InitWith(TRUE)

NextBackoff ==
    \/ UserConnectPoolN
    \/ ConnectOK
    \/ ConnectFailAny
    \/ ServerReply
    \/ ServerEOF
    \/ SleepExpire
    \/ RunData
    \/ RunEOF
    \/ RunLost
    \/ RunWake
    \/ RunStep
    \/ RunSleepFire

SpecBackoff == InitBackoff /\ [][NextBackoff]_vars

\* the pids: a client connected with connect(); its connection has written
\* k0 requests, all answered, and the application sends more
InitConnected(k0, ws) ==
    /\ ready = <<>>
    /\ batch = 0
    /\ protos = <<[NewProtocol(0) EXCEPT !.pid = k0 % PidMod,
                                         !.writes = k0,
                                         !.ws = ws]>>
    /\ futs = <<>>
    /\ tasks = [t \in TaskIds |-> Free]
    /\ client = [NewClient(FALSE) EXCEPT !.protocol = 1, !.pool = 1,
                                         !.tried = <<0>>]
    /\ objs = [o \in Objs |-> NewRoom(IntId(RoomOf(o).id), "return")]
    /\ last = [op |-> "init"]

InitPid == \E k0 \in PidStarts : InitConnected(k0, FALSE)

NextPid ==
    \/ UserRequest
    \/ ServerReply
    \/ TimerExpire
    \/ RunData
    \/ RunTimerFire
    \/ RunTimerWake
    \/ RunWake

SpecPid == InitPid /\ [][NextPid]_vars

\* the pids after the wrap: the first request of a connection (pid 1) is
\* still pending, with or without a timeout, when the connection has
\* written and got the answers of 65534 or 65535 more requests
Connected(k0) ==
    [ready |-> <<>>, batch |-> 0,
     protos |-> <<[NewProtocol(0) EXCEPT !.pid = k0 % PidMod,
                                         !.writes = k0]>>,
     futs |-> <<>>,
     tasks |-> [t \in TaskIds |-> Free],
     client |-> [NewClient(FALSE) EXCEPT !.protocol = 1, !.pool = 1,
                                         !.tried = <<0>>],
     objs |-> [o \in Objs |-> NewRoom(IntId(RoomOf(o).id), "return")],
     last |-> [op |-> "init"],
     ret |-> "ok", full |-> FALSE, reg |-> FALSE]

FirstPending(timeout, k0) ==
    LET req == [tp |-> REQ_QUERY, data |-> [code |-> "noop"],
                timeout |-> timeout]
        s == _write_pkg_start(
                [Connected(0) EXCEPT !.tasks[1] = RequestTask(req, "app", 0)],
                1)
    IN  [s EXCEPT !.protos[1].pid = k0 % PidMod, !.protos[1].writes = k0,
                  !.last = [op |-> "init"]]

InitWrap ==
    \E timeout \in Timeouts, k0 \in {PidMod - 1, PidMod} :
        LET w == FirstPending(timeout, k0)
        IN  /\ ready = w.ready
            /\ batch = w.batch
            /\ protos = w.protos
            /\ futs = w.futs
            /\ tasks = w.tasks
            /\ client = w.client
            /\ objs = w.objs
            /\ last = w.last

NextWrap ==
    \/ UserRequest
    \/ ServerReply
    \/ TimerExpire
    \/ RunData
    \/ RunTimerFire
    \/ RunTimerWake
    \/ RunWake

SpecWrap == InitWrap /\ [][NextWrap]_vars

\* the frames: a connection of class Protocol (TCP) or ProtocolWS with the
\* callbacks of a client; the application sends requests and the server
\* sends frames with a right or a wrong check byte
InitFrame == \E ws \in BOOLEAN : InitConnected(0, ws)

NextFrame ==
    \/ UserRequest
    \/ ServerFrame
    \/ ServerPush
    \/ RunBytes
    \/ RunWake

SpecFrame == InitFrame /\ [][NextFrame]_vars

\* the room ids: a connected client; the application has a room made with
\* an integer id and a room made with code, it calls join() and no_join(),
\* and the server pushes room events
InitResolve ==
    /\ ready = <<>>
    /\ batch = 0
    /\ protos = <<NewProtocol(0)>>
    /\ futs = <<>>
    /\ tasks = [t \in TaskIds |-> Free]
    /\ client = [NewClient(FALSE) EXCEPT !.protocol = 1, !.pool = 1,
                                         !.tried = <<0>>]
    /\ objs = [o \in Objs |->
                NewRoom(IF o = 3 THEN StrId(".my_room.id();")
                        ELSE IntId(RoomOf(o).id), "return")]
    /\ last = [op |-> "init"]

NextResolve ==
    \/ UserRoomJoinCode
    \/ UserNoJoin
    \/ ServerReply
    \/ RoomEvent
    \/ RunData
    \/ RunWake
    \/ RunStep

SpecResolve == InitResolve /\ [][NextResolve]_vars

\* the streams: a connected client whose server has sent a stream of
\* frames; the bytes are read from the socket in chunks of any size, the
\* messages of a websocket one by one
InitStream(bodies, wss) ==
    /\ ready = <<>>
    /\ batch = 0
    /\ \E ws \in wss, stream \in Streams(bodies) :
        protos = <<[NewProtocol(0) EXCEPT
                        !.ws = ws, !.sent = stream,
                        !.wire = IF ws THEN <<>> ELSE Flatten(stream),
                        !.inbox = IF ws THEN stream ELSE <<>>]>>
    /\ futs = <<>>
    /\ tasks = [t \in TaskIds |-> Free]
    /\ client = [NewClient(FALSE) EXCEPT !.protocol = 1, !.pool = 1,
                                         !.tried = <<0>>]
    /\ objs = [o \in Objs |-> NewRoom(IntId(RoomOf(o).id), "return")]
    /\ last = [op |-> "init"]

\* well-formed frames on a TCP connection
InitChunk == InitStream(GoodBodies, {FALSE})

NextChunk == SocketRead

SpecChunk == InitChunk /\ [][NextChunk]_vars

\* frames of which some fail to unpack, on a TCP connection and on a
\* websocket
InitGarble == InitStream(GoodBodies \cup {BadBody}, BOOLEAN)

NextGarble ==
    \/ SocketRead
    \/ MessageRecv

SpecGarble == InitGarble /\ [][NextGarble]_vars

\* rooms joined while the application's reconnect() runs: the connection
\* the loop started from is closed 10 seconds after the loop has succeeded
InitRejoin == InitWith(FALSE)

NextRejoin ==
    \/ UserConnectPool
    \/ ConnectOKSwitch
    \/ UserJoinAnytime
    \/ UserReconnect
    \/ ServerReply
    \/ GraceExpire
    \/ RunData
    \/ RunLost
    \/ RunWake
    \/ RunStep
    \/ RunGatherCallback
    \/ RunClose

SpecRejoin == InitRejoin /\ [][NextRejoin]_vars

\* ------------------------------------------------------------- util.cnscope
\* the characters of scopes: a letter, a digit, the underscore, a character
\* no name may hold, and the two separators of scopes
Letters == {"a"}
Digits == {"7"}
Chars == Letters \cup Digits \cup {"_", "-", ":", "/"}

\* the scopes: the strings of at most MaxScope characters
Scopes == UNION {[1..n -> Chars] : n \in 0..MaxScope}

\* the most characters a name has after its first, {0,254} in _VALID_NAME
NameMore == 254

\* how many of the first characters of str are in the class, at most most
RECURSIVE Run(_, _, _)
Run(str, class, most) ==
    IF str = <<>> \/ most = 0 \/ Head(str) \notin class THEN 0
    ELSE 1 + Run(Tail(str), class, most - 1)

\* _VALID_NAME.match(name) of cnscope.py, the pattern
\* ^[A-Za-z_][0-9A-Za-z_]{0,254} without `$`: the number of characters the
\* match takes from the start of name, -1 for None
cnscope_VALID_NAME_match(name) ==
    IF name = <<>> \/ Head(name) \notin Letters \cup {"_"} THEN -1
    ELSE 1 + Run(Tail(name), Letters \cup Digits \cup {"_"}, NameMore)

\* scope.split(sep)[-1]: what follows the last sep
RECURSIVE split_last(_, _)
split_last(scope, sep) ==
    IF \A i \in 1..Len(scope) : scope[i] # sep THEN scope
    ELSE split_last(Tail(scope), sep)

\* cnscope(scope): the name it returns, or ValueError
cnscope(scope) ==
    LET name == IF \E i \in 1..Len(scope) : scope[i] = ":"
                THEN split_last(scope, ":")
                ELSE IF \E i \in 1..Len(scope) : scope[i] = "/"
                THEN split_last(scope, "/")
                ELSE <<>>
    IN  IF cnscope_VALID_NAME_match(name) # -1
        THEN [res |-> name]
        ELSE Exc("ValueError")

\* the application calls cnscope(scope)
CallCnscope ==
    \E scope \in Scopes :
        /\ last' = [op |-> "cnscope", scope |-> scope, out |-> cnscope(scope)]
        /\ UNCHANGED <<ready, batch, protos, futs, tasks, client, objs>>

InitScope == InitApp(FALSE, "return")

NextScope == CallCnscope

SpecScope == InitScope /\ [][NextScope]_vars

\* the lock: a connected client whose calls of misc.lock.lock() wait for
\* the lock, each with a room of its own; the node hands the lock over to
\* the waiters in their order, before, during or after the join of a room
InitLock ==
    /\ ready = <<>>
    /\ batch = 0
    /\ protos = <<NewProtocol(0)>>
    /\ futs = <<>>
    /\ tasks = [t \in TaskIds |-> Free]
    /\ client = [NewClient(FALSE) EXCEPT !.protocol = 1, !.pool = 1,
                                         !.tried = <<0>>]
    /\ objs = [o \in Objs |-> NewRoom(IntId(RoomOf(o).id), "test")]
    /\ last = [op |-> "init"]

NextLock ==
    \/ UserLock
    \/ ServerLockReply
    \/ ServerJoinEvent
    \/ ServerHandOver
    \/ RunData
    \/ RunWake
    \/ RunStep

SpecLock == InitLock /\ [][NextLock]_vars

\* the switch of node: a client connected to a pool of two nodes has joined
\* a room and the application calls reconnect()
InitSwitch == InitConn

NextSwitch ==
    \/ UserConnectPool
    \/ ConnectOKSwitch
    \/ UserJoin
    \/ UserReconnect
    \/ ServerReply
    \/ SleepExpire
    \/ RunData
    \/ RunWake
    \/ RunStep
    \/ RunGatherCallback
    \/ RunSleepFire

SpecSwitch == InitSwitch /\ [][NextSwitch]_vars

\* ------------------------------------------------------------ properties
Futs == 1..Len(futs)
\* the slots of the pending-request map that hold future r
SlotsOf(r) ==
    {i \in 1..Len(protos[futs[r].p].requests) :
        protos[futs[r].p].requests[i].fut = r}
TimerRuns(r) == futs[r].timer \in {"armed", "due", "waking"}
\* the exceptions RES_ERROR is mapped to
TypedErrors == {_ERRMAP(c) : c \in -64..-50} \cup {_ERRMAP(c) : c \in -7..-1}
\* what a response package completes a future with
Payload(pkg) ==
    CASE pkg.tp = RES_DATA -> pkg.data
      [] pkg.tp = RES_ERROR -> ErrOf(pkg.data)
      [] OTHER -> NoData

\* C1: a request that was written is completed at most once, by a value, a
\* typed error, a timeout error or a cancellation on connection loss; while
\* it is pending it has its slot in the map, once it is completed its timer
\* is stopped and the map holds no slot for it.
C1_CompletedOnce ==
    \A r \in Futs : futs[r].st # "collected" =>
        /\ futs[r].n <= 1
        /\ (futs[r].st = "pending") <=> (futs[r].n = 0)
        /\ futs[r].st = "pending" =>
                /\ Cardinality(SlotsOf(r)) = 1
                /\ \A i \in SlotsOf(r) :
                        protos[futs[r].p].requests[i].pid = futs[r].pid
        /\ futs[r].st # "pending" =>
                /\ SlotsOf(r) = {}
                /\ \A i \in 1..Len(protos[futs[r].p].requests) :
                        protos[futs[r].p].requests[i].pid # futs[r].pid
                /\ ~TimerRuns(r)
        /\ futs[r].st \in {"pending", "result", "exception", "cancelled"}
        /\ futs[r].st = "exception" =>
                futs[r].val.exc \in TypedErrors \cup {"TimeoutError"}
        /\ futs[r].st = "cancelled" => ~protos[futs[r].p].transport

\* one request completed by a response and another by a timeout or a
\* connection loss
C1_Witness ==
    \E r, r2 \in Futs :
        /\ futs[r].st = "result" /\ futs[r].n = 1
        /\ futs[r2].st \in {"exception", "cancelled"} /\ futs[r2].n = 1

\* C2: a response with pid p completes the future registered under p, and
\* no other, with its own payload; the other futures and slots, and the
\* other connections, are left as they were.
C2_OwnPayload ==
    [][\A p \in 1..Len(protos) :
        (/\ RunData
         /\ Head(ready).p = p
         /\ Head(ready).pkg.tp \in _PROTO_RESPONSE_MAP
         /\ ~protos[p].closing)
        => \A i \in 1..Len(protos[p].requests) :
            protos[p].requests[i].pid = Head(ready).pkg.pid =>
                LET r == protos[p].requests[i].fut
                IN  /\ futs[r].st = "pending" =>
                        /\ futs'[r].st = IF Head(ready).pkg.tp = RES_ERROR
                                         THEN "exception" ELSE "result"
                        /\ futs'[r].val = Payload(Head(ready).pkg)
                    /\ \A r2 \in Futs : r2 # r => futs'[r2] = futs[r2]
                    /\ protos'[p].requests = RemoveAt(protos[p].requests, i)
                    /\ \A q \in 1..Len(protos) : q # p => protos'[q] = protos[q]
      ]_vars

\* a response has completed a request while an older request of the same
\* connection is still pending
C2_Witness ==
    /\ last.op = "_on_response"
    /\ last.fut # 0
    /\ futs[last.fut].st = "result"
    /\ \E r2 \in Futs :
        /\ r2 < last.fut
        /\ futs[r2].p = last.p
        /\ futs[r2].st = "pending"

\* C3: when the timer of a pending request fires, its slot is removed and
\* its future fails with a timeout error; a response whose pid has no slot
\* completes no future and leaves the map as it was.
C3_TimeoutThenDiscard ==
    [][/\ \A r \in Futs :
            (/\ RunTimerWake
             /\ Head(ready).r = r
             /\ futs[r].timer = "waking"
             /\ futs[r].st = "pending")
            => /\ futs'[r].st = "exception"
               /\ futs'[r].val = Exc("TimeoutError")
               /\ \A i \in 1..Len(protos'[futs[r].p].requests) :
                    /\ protos'[futs[r].p].requests[i].fut # r
                    /\ protos'[futs[r].p].requests[i].pid # futs[r].pid
       /\ \A p \in 1..Len(protos) :
            (/\ RunData
             /\ Head(ready).p = p
             /\ Head(ready).pkg.tp \in _PROTO_RESPONSE_MAP
             /\ \A i \in 1..Len(protos[p].requests) :
                    protos[p].requests[i].pid # Head(ready).pkg.pid)
            => (futs' = futs /\ protos' = protos)
      ]_vars

\* the reply to a request that timed out has been discarded
C3_Witness ==
    /\ last.op = "_on_response"
    /\ last.fut = 0
    /\ \E r \in Futs :
        /\ futs[r].p = last.p
        /\ futs[r].pid = last.pkg.pid
        /\ futs[r].st = "exception"
        /\ futs[r].val = Exc("TimeoutError")

\* C4: when connection_lost runs, every request pending on the connection
\* is cancelled and its timer stopped, and the map is empty when
\* _on_connection_lost is called.
C4_CancelledBeforeCallback ==
    [][\A p \in 1..Len(protos) :
        (RunLost /\ Head(ready).p = p)
        => /\ \A r \in Futs :
                (futs[r].p = p /\ futs[r].st = "pending")
                => (futs'[r].st = "cancelled" /\ ~TimerRuns(r)')
           /\ protos'[p].requests = <<>>
           /\ last'.op = "connection_lost"
           /\ last'.p = p
           /\ last'.pending = 0
      ]_vars

\* a connection was lost with a request pending whose timer was running
C4_Witness ==
    /\ last.op = "connection_lost"
    /\ \E r \in Futs :
        /\ futs[r].p = last.p
        /\ futs[r].st = "cancelled"
        /\ futs[r].timer = "cancelled"

\* C7: in strict mode a request issued while the client is not connected
\* fails at once with ConnectionError; no request is written and no
\* connection changes.
C7_StrictFailsAtOnce ==
    [][(UserRequest /\ ~client.ensure /\ ~is_connected(World))
        => /\ last'.op = "done"
           /\ last'.out = Exc("ConnectionError")
           /\ futs' = futs
           /\ protos' = protos
           /\ ready' = ready
      ]_vars

\* a strict request has failed with ConnectionError after the connection it
\* could have used was lost
C7_Witness ==
    /\ ~client.ensure
    /\ last.op = "done"
    /\ last.task.kind = "rq"
    /\ last.task.pc = "new"
    /\ last.out = Exc("ConnectionError")
    /\ Len(protos) > 0

\* C5: a client made with auto_reconnect that has connected to a pool is
\* never left disconnected with no reconnect loop running or about to run.
C5_NeverStranded ==
    (/\ client.reconnect
     /\ client.pool # 0
     /\ ~is_connected(World))
    => \/ client.reconnecting
       \/ \E t \in TaskIds : tasks[t].kind = "rc" /\ tasks[t].pc = "new"

\* C6: in ensure mode a request of the application whose connection is
\* lost before the response arrives is not failed to the caller.
C6_NotFailedByLoss ==
    (/\ client.ensure
     /\ last.op = "done"
     /\ last.task.kind = "rq"
     /\ last.task.src = "app")
    => last.out # Exc("asyncio.CancelledError")

\* C8: a node-status event launches one reconnect if and only if
\* auto_reconnect is on and the status is SHUTTING_DOWN; in every case the
\* event leaves the client's connection, the connections and the pending
\* requests as they were.
C8_NodeStatus ==
    [][(/\ RunData
        /\ Head(ready).pkg.tp = ON_NODE_STATUS
        /\ ~protos[Head(ready).p].closing)
        => /\ IF client.reconnect /\ Head(ready).pkg.data.status = "SHUTTING_DOWN"
              THEN \E t \in TaskIds :
                    /\ tasks[t] = Free
                    /\ tasks' = [tasks EXCEPT ![t] = ReconnectTask]
                    /\ ready' = Append(Tail(ready), [k |-> "step", t |-> t])
              ELSE tasks' = tasks /\ ready' = Tail(ready)
           /\ client' = client
           /\ protos' = protos
           /\ futs' = futs
      ]_vars

\* a SHUTTING_DOWN event has launched a reconnect while a request of the
\* application is pending on the connection
C8_Witness ==
    /\ last.op = "_on_event"
    /\ last.pkg.tp = ON_NODE_STATUS
    /\ last.pkg.data.status = "SHUTTING_DOWN"
    /\ client.reconnect
    /\ \E t \in TaskIds : tasks[t] = ReconnectTask
    /\ \E r \in Futs : futs[r].p = last.p /\ futs[r].st = "pending"

\* the connection p has been replaced: another connection was made, answered
\* PING and AUTH, and the rooms were joined again on it
Replaced(p) == \E q \in 1..Len(protos) : q # p /\ protos[q].stage = "ready"

\* C9: a response arriving on a connection that is being replaced, or was
\* replaced, still completes the request pending under its pid; the client
\* closes a connection only by the timer set for it once it has been
\* replaced, never before.
C9_OldConnection ==
    [][/\ \A p \in 1..Len(protos) :
            (/\ RunData
             /\ Head(ready).p = p
             /\ Head(ready).pkg.tp \in _PROTO_RESPONSE_MAP
             /\ ~protos[p].closing
             /\ (client.reconnecting \/ client.protocol # p))
            => \A i \in 1..Len(protos[p].requests) :
                (/\ protos[p].requests[i].pid = Head(ready).pkg.pid
                 /\ futs[protos[p].requests[i].fut].st = "pending")
                => /\ futs'[protos[p].requests[i].fut].st \in {"result", "exception"}
                   /\ futs'[protos[p].requests[i].fut].val = Payload(Head(ready).pkg)
       /\ \A p \in 1..Len(protos') :
            /\ protos'[p].grace # "none" => Replaced(p)'
            /\ protos'[p].closedby = "client" => protos'[p].grace = "fired"
      ]_vars

\* a response has completed a request on the old connection after the new
\* one was ready, within the 10 seconds before the old one is closed
C9_Witness ==
    /\ last.op = "_on_response"
    /\ last.fut # 0
    /\ futs[last.fut].st = "result"
    /\ protos[last.p].grace = "armed"
    /\ client.protocol # last.p
    /\ Replaced(last.p)

\* the rooms of the registry that are in a scope
RoomsIn(scope) ==
    {i \in 1..Len(client.rooms) : client.rooms[i].scope = scope}
RegisteredScopes == {client.rooms[i].scope : i \in 1..Len(client.rooms)}
IsRejoinTask(t) == tasks[t].kind = "rq" /\ tasks[t].src = "rejoin"

\* C10 as amended: _rejoin makes one JOIN call per scope of the registry,
\* with the payload [scope, ids..] of every room id registered in that scope
\* and no other, and none for an empty registry; each call writes its JOIN
\* request once, and once more after every NodeError or AuthError answer.
C10_OneCallPerScope ==
    /\ last.op = "_rejoin" =>
        /\ {last.calls[i].scope : i \in 1..Len(last.calls)} = RegisteredScopes
        /\ Len(last.calls) = Cardinality(RegisteredScopes)
        /\ \A i \in 1..Len(last.calls) :
            /\ {last.calls[i].ids[j] : j \in 1..Len(last.calls[i].ids)}
                = {client.rooms[k].id : k \in RoomsIn(last.calls[i].scope)}
            /\ Len(last.calls[i].ids) = Cardinality(RoomsIn(last.calls[i].scope))
            /\ Cardinality({t \in TaskIds :
                    /\ IsRejoinTask(t)
                    /\ tasks[t].parent = last.t
                    /\ tasks[t].pc = "new"
                    /\ tasks[t].req.tp = REQ_JOIN
                    /\ tasks[t].req.data = last.calls[i]}) = 1
        /\ Cardinality({t \in TaskIds : IsRejoinTask(t) /\ tasks[t].parent = last.t})
            = Len(last.calls)
    /\ \A t \in TaskIds : IsRejoinTask(t) =>
        /\ tasks[t].pc = "wait" =>
            /\ tasks[t].writes = tasks[t].retries + 1
            /\ futs[tasks[t].fut].tp = REQ_JOIN
            /\ futs[tasks[t].fut].data = tasks[t].req.data
        /\ tasks[t].pc # "wait" => tasks[t].writes = tasks[t].retries
    /\ \A r \in Futs :
        (futs[r].src = "rejoin" /\ futs[r].st # "collected") =>
            \E t \in TaskIds : IsRejoinTask(t) /\ tasks[t].fut = r

\* a rejoin with two rooms of one scope in the registry
C10_Witness ==
    /\ last.op = "_rejoin"
    /\ \E i \in 1..Len(last.calls) : Len(last.calls[i].ids) = 2

\* C10 as claimed: no JOIN call of a rejoin is written more than once
C10_ExactlyOneJoin ==
    \A t \in TaskIds : IsRejoinTask(t) => tasks[t].writes <= 1

\* the published table of error codes
PublishedCodes == (-64..-50) \cup (-6..-1)
PublishedKind(c) ==
    CASE c = -64 -> "CancelledError"    [] c = -63 -> "OperationError"
      [] c = -62 -> "NumArgumentsError" [] c = -61 -> "TypeError"
      [] c = -60 -> "ValueError"        [] c = -59 -> "OverflowError"
      [] c = -58 -> "ZeroDivisionError" [] c = -57 -> "MaxQuotaError"
      [] c = -56 -> "AuthError"         [] c = -55 -> "ForbiddenError"
      [] c = -54 -> "LookupError"       [] c = -53 -> "BadDataError"
      [] c = -52 -> "SyntaxError"       [] c = -51 -> "NodeError"
      [] c = -50 -> "AssertionError"    [] c = -6 -> "ResultTooLargeError"
      [] c = -5 -> "RequestTimeoutError" [] c = -4 -> "RequestCancelError"
      [] c = -3 -> "WriteUVError"       [] c = -2 -> "MemoryError"
      [] c = -1 -> "InternalError"

\* C20: a RES_ERROR for a pending request completes its future with the
\* error kind the published table gives for the error_code, each of the 21
\* published codes with a kind of its own, and with CustomError for every
\* other code; the exception is made with the whole map of the server, so
\* that -55 with error_msg "nope" gives ForbiddenError carrying "nope".
C20_ErrorKind ==
    [][\A p \in 1..Len(protos) :
        (/\ RunData
         /\ Head(ready).p = p
         /\ Head(ready).pkg.tp = RES_ERROR
         /\ ~protos[p].closing)
        => \A i \in 1..Len(protos[p].requests) :
            (/\ protos[p].requests[i].pid = Head(ready).pkg.pid
             /\ futs[protos[p].requests[i].fut].st = "pending")
            => LET r == protos[p].requests[i].fut
                   d == Head(ready).pkg.data
               IN  /\ futs'[r].st = "exception"
                   /\ futs'[r].val.errdata = d
                   /\ futs'[r].val.exc =
                        IF d.error_code \in PublishedCodes
                        THEN PublishedKind(d.error_code) ELSE "CustomError"
                   /\ \A c \in PublishedCodes :
                        PublishedKind(c) = futs'[r].val.exc => c = d.error_code
                   /\ (d.error_code = -55 /\ d.error_msg = "nope")
                        => futs'[r].val = [exc |-> "ForbiddenError", errdata |->
                                [error_code |-> -55, error_msg |-> "nope"]]
      ]_vars

\* the request of the application has failed with ForbiddenError carrying
\* "nope"
C20_Witness ==
    /\ last.op = "done"
    /\ last.task.kind = "rq"
    /\ last.out = [exc |-> "ForbiddenError",
                   errdata |-> [error_code |-> -55, error_msg |-> "nope"]]

\* a request has failed with CustomError carrying the map of the server
C20_WitnessCustom ==
    /\ last.op = "done"
    /\ last.task.kind = "rq"
    /\ IsExc(last.out)
    /\ last.out.exc = "CustomError"
    /\ last.out.errdata.error_code = -100

\* the join() calls, the tasks of _on_room and the on_join tasks
IsJoin(tk) == tk.kind = "rq" /\ tk.src = "join"
JoinReturned ==
    last.op = "done" /\ IsJoin(last.task) /\ ~IsExc(last.out)
Dispatched == last.op = "_on_room"

\* C11: on_init is called at most once on a room object, however often
\* join() is called on it.
C11_InitOnce ==
    \A o \in Objs : objs[o].on_init <= 1

\* C12: on_join of a room starts, and a handler of the room is called for
\* an event, only after on_init of the room has been called, also for an
\* event that was received before join() has registered the room.
C12_InitFirst ==
    /\ \A t \in TaskIds :
            tasks[t].kind = "oj" => objs[tasks[t].obj].on_init >= 1
    /\ (last.op = "done" /\ last.task.kind = "oj")
            => objs[last.task.obj].on_init >= 1
    /\ (Dispatched /\ last.call # "unknown room") => last.on_init >= 1

\* an ON_ROOM_JOIN received before join() had registered the room has
\* waited for the lock and has started on_join after on_init
C12_Witness ==
    /\ Dispatched
    /\ last.early
    /\ last.tp = ON_ROOM_JOIN
    /\ last.call = "_on_first_join"
    /\ last.on_init = 1

\* C13: when on_leave or on_delete is called the room is no longer in the
\* registry; it is called at most once for a registration, and an event of
\* a room that has left and is not registered again calls no handler.
C13_StopOnce ==
    /\ \A o \in Objs : objs[o].stops <= 1
    /\ (Dispatched /\ last.call \in {"on_leave", "on_delete"})
            => /\ ~last.registered
               /\ RegIndex(client.rooms, last.id) = 0
    /\ (Dispatched /\ last.o # 0)
            => objs[last.o].stops =
                    IF last.call \in {"on_leave", "on_delete"} THEN 1 ELSE 0
    /\ \A i \in 1..Len(client.rooms) : objs[client.rooms[i].obj].stops = 0

\* an event of a room that has left is dropped
C13_Witness ==
    /\ Dispatched
    /\ last.call = "unknown room"
    /\ \E room \in RoomChoices :
            room.id = last.id /\ objs[room.obj].stops = 1

C14_WitnessNoWait ==
    /\ JoinReturned
    /\ last.task.wait = 0
    /\ objs[last.task.room.obj].ended = 0

\* C15: when on_join raises in _on_first_join, the gate is set all the
\* same; a join() that waits for the gate returns without an exception
\* once the gate is set, and join() never raises what on_join raised.
C15_GateReleased ==
    /\ (/\ last.op = "done"
         /\ last.task.kind = "oj"
         /\ last.task.first
         /\ last.out = Exc("RuntimeError"))
            => /\ last.task.fut.v = "Future"
               /\ objs[last.task.obj].gates[last.task.fut.g].st = "done"
    /\ (last.op = "done" /\ IsJoin(last.task) /\ last.task.pc = "gate")
            => ((objs[last.task.room.obj].gates[last.task.g].st = "done")
                    <=> ~IsExc(last.out))
    /\ (last.op = "done" /\ IsJoin(last.task))
            => last.out # Exc("RuntimeError")

\* join() with wait > 0 has returned though on_join has raised
C15_Witness ==
    /\ JoinReturned
    /\ last.task.wait # 0
    /\ objs[last.task.room.obj].on_join = "raise"
    /\ objs[last.task.room.obj].ended >= 1

C17_InOrder ==
    [][(last' # last /\ last'.op = "_on_room")
        => /\ \A u \in TaskIds :
                (tasks[u].kind = "or" /\ tasks[u].pkg.data.id = last'.id)
                    => tasks[u].seq >= last'.seq
           /\ tasks[last'.t].kind = "or"
           /\ tasks[last'.t].seq = last'.seq
           /\ ~client.rooms_lock.locked
      ]_vars

\* an event is given to its room after it has waited for the lock, while a
\* later event of the room and a join() of another room wait for the lock
C17_Witness ==
    /\ Dispatched
    /\ last.call # "unknown room"
    /\ \E u \in TaskIds :
            /\ tasks[u].kind = "or" /\ tasks[u].pc = "lock"
            /\ tasks[u].pkg.data.id = last.id
            /\ tasks[u].seq > last.seq

\* closing the client: a client made with or without auto_reconnect connects
\* to a pool, loses connections and reconnects; the application calls
\* close() once, and wait_closed() at once or later
InitClose == \E auto_reconnect \in BOOLEAN : InitWith(auto_reconnect)

NextClose ==
    \/ UserConnectPoolOpen
    \/ ConnectOK
    \/ ConnectFail
    \/ ServerReply
    \/ ServerEvent
    \/ ServerEOF
    \/ UserClose
    \/ UserWaitClosed
    \/ SleepExpire
    \/ GraceExpire
    \/ RunData
    \/ RunEOF
    \/ RunLost
    \/ RunWake
    \/ RunStep
    \/ RunSleepFire
    \/ RunClose

\* the event loop runs the callbacks that are ready
RunLoop ==
    \/ RunData
    \/ RunEOF
    \/ RunLost
    \/ RunWake
    \/ RunStep
    \/ RunSleepFire
    \/ RunClose

\* the loop runs what is ready; a sleep and the 10 seconds of call_later
\* end; the server answers the requests written on an open connection; a
\* connection attempt ends (wait_for(conn, timeout) in _connect)
SpecClose ==
    /\ InitClose /\ [][NextClose]_vars
    /\ WF_vars(RunLoop)
    /\ WF_vars(ServerReply \/ SleepExpire \/ GraceExpire)
    /\ []<>(\A t \in TaskIds : tasks[t].pc # "connect")

\* C18: once close() has been called the client connects no more on its
\* own: no reconnect loop, new or already running, begins a connection
\* attempt.
C18_OneWay ==
    [][client.closes > 0 => (last'.op = "attempt" => last' = last)]_vars

\* C19: wait_closed() called after close() terminates.
C19_Terminates ==
    (\E t \in TaskIds : tasks[t].kind = "wc")
        ~> (\A t \in TaskIds : tasks[t].kind # "wc")

\* wait_closed() awaited in the step of close() awaits the connection that
\* close() has closed, and what ends the wait is in the queue of the loop:
\* connection_lost of that connection, then the wake-up of the coroutine
WaitClosedAtOnce ==
    \A t \in TaskIds :
        (tasks[t].kind = "wc" /\ ~tasks[t].gap)
            => /\ tasks[t].p = client.closed_p
               /\ protos[tasks[t].p].closing
               /\ tasks[t].pc = "closed"
                    => /\ protos[tasks[t].p].close_future
                       /\ \E i \in 1..Len(ready) :
                            ready[i] = [k |-> "lost", p |-> tasks[t].p]
               /\ tasks[t].pc = "woken"
                    => \E i \in 1..Len(ready) :
                            ready[i] = [k |-> "wake", t |-> t, r |-> 0]

\* wait_closed() awaited in the step of close(), and wait_closed() that
\* awaits the connection close() has closed, terminate
WaitClosedAtOnceEnds ==
    (\E t \in TaskIds :
        /\ tasks[t].kind = "wc"
        /\ ~tasks[t].gap \/ tasks[t].p = client.closed_p)
        ~> (\A t \in TaskIds : tasks[t].kind # "wc")

\* when wait_closed() returns, the connection that close() has closed has
\* reported connection_lost and is not the connection of the client
WaitClosedAfterLoss ==
    (/\ last.op = "done"
     /\ last.task.kind = "wc"
     /\ client.closed_p # 0)
        => /\ ~protos[client.closed_p].transport
           /\ ~protos[client.closed_p].close_future
           /\ client.protocol # client.closed_p

\* ------------------------------------------------------------------- C29
\* an on_join that is in the middle of its body (at an await) in the task
\* of _on_first_join, that is for a room joined with wait > 0
OnJoinRunning(o) ==
    \E t \in TaskIds :
        /\ tasks[t].kind = "oj" /\ tasks[t].first
        /\ tasks[t].obj = o /\ tasks[t].pc = "sleep"

\* no room event has just been given to a room whose on_join is running
NoEventDuringOnJoin ==
    (last.op = "_on_room" /\ last.o # 0) => ~OnJoinRunning(last.o)

\* C29: while the on_join of a room joined with wait > 0 has not finished,
\* the rooms lock is kept, so that no room event of that room is given to
\* the room before on_join completes
C29_LockKept ==
    /\ \A o \in DOMAIN objs : OnJoinRunning(o) => client.rooms_lock.locked
    /\ NoEventDuringOnJoin

\* ------------------------------------------------------------------- C23
\* the reconnect() calls that are inside _reconnect_loop
ActiveLoops == {t \in TaskIds : tasks[t].kind = "rc" /\ tasks[t].pc # "new"}

\* C23: at most one reconnect loop is active; the guard is set exactly
\* while a loop is active, so a reconnect() called meanwhile returns at
\* once and the guard is cleared however the loop exits
C23_OneLoop ==
    /\ Cardinality(ActiveLoops) <= 1
    /\ client.reconnecting <=> ActiveLoops # {}

\* a reconnect() called while a loop runs has returned at once
C23_Witness ==
    /\ last.op = "done" /\ last.task.kind = "rc" /\ last.task.pc = "new"
    /\ last.out = [res |-> NoData]
    /\ client.reconnecting
    /\ Cardinality(ActiveLoops) = 1

\* a loop has been left by asyncio.CancelledError on the connection it had
\* made, and a later reconnect() runs a loop again
C23_WitnessAgain ==
    /\ last.op = "attempt" /\ last.wait_time = 1
    /\ Len(protos) = 2
    /\ protos[2].stage # "ready" /\ ~protos[2].transport
    /\ client.reconnecting

\* ------------------------------------------------------------------- C24
\* the steps of an attempt are made in order on the connection the attempt
\* has opened: PING on the open transport, AUTH after the answer to PING,
\* the rejoin after the answer to AUTH
StepsOrdered ==
    /\ last.op = "ping" =>
        /\ tasks[last.t].res = [ok |-> TRUE, p |-> last.p]
        /\ protos[last.p].stage = "made" /\ protos[last.p].transport
    /\ last.op = "auth" =>
        /\ tasks[last.t].res = [ok |-> TRUE, p |-> last.p]
        /\ protos[last.p].stage = "pinged"
    /\ last.op = "_rejoin" =>
        /\ tasks[last.t].res = [ok |-> TRUE, p |-> last.p]
        /\ protos[last.p].stage = "authed"
    /\ last.op = "attempt_failed" =>
        /\ tasks[last.t].pc = "sleep"
        /\ tasks[last.t].res.ok => protos[tasks[last.t].res.p].stage # "ready"

\* a reconnect loop has just ended otherwise than by the else branch of a
\* successful attempt
LoopLeftByException ==
    /\ last.op = "done"
    /\ last.task.kind = "rc" /\ last.task.pc # "new"

\* C24: the steps of a reconnect attempt are ordered (transport, PING,
\* AUTH, rejoin), a failed step skips the rest of the attempt, and the
\* loop ends only after an attempt in which every step has succeeded
C24_OrderedSteps == StepsOrdered /\ ~LoopLeftByException

\* ------------------------------------------------------------------- C25
Min(a, b) == IF a < b THEN a ELSE b

\* C25: in a reconnect loop the sleep after the k-th failed attempt is
\* min(2^(k-1), 60) seconds and the connect timeout of the k-th attempt is
\* min(k+1, 10) seconds; every loop starts with 1 and 2
C25_Backoff ==
    \A t \in ActiveLoops :
        /\ tasks[t].attempt >= 1
        /\ tasks[t].wait_time = Min(2 ^ (tasks[t].attempt - 1), MAX_RECONNECT_WAIT_TIME)
        /\ tasks[t].timeout = Min(tasks[t].attempt + 1, MAX_RECONNECT_TIMEOUT)
        /\ tasks[t].wait_time <= MAX_RECONNECT_WAIT_TIME
        /\ tasks[t].timeout <= MAX_RECONNECT_TIMEOUT

\* the loop sleeps after its 8th failed attempt in a row
C25_Witness ==
    \E t \in ActiveLoops :
        /\ tasks[t].attempt = 8 /\ tasks[t].pc = "sleep"
        /\ tasks[t].wait_time = 60 /\ tasks[t].timeout = 9

\* the 11th attempt of a loop
C25_WitnessCapped ==
    \E t \in ActiveLoops :
        /\ tasks[t].attempt = 11 /\ tasks[t].pc = "connect"
        /\ tasks[t].wait_time = 60 /\ tasks[t].timeout = 10

\* a second loop, after the connection the first loop made was lost,
\* sleeps after its first attempt
C25_WitnessNewLoop ==
    \E t \in ActiveLoops :
        /\ Len(protos) = 1 /\ ~protos[1].transport /\ protos[1].stage = "ready"
        /\ tasks[t].attempt = 1 /\ tasks[t].pc = "sleep"
        /\ tasks[t].wait_time = 1 /\ tasks[t].timeout = 2

\* ------------------------------------------------------------------- C26
\* a connection attempt is awaited in _connect
InConnect ==
    \E t \in TaskIds :
        tasks[t].kind \in {"rc", "cn"} /\ tasks[t].pc \in {"connect", "connected"}

\* C26: the pool index is within the pool; it is the node of the attempt
\* while _connect awaits and one further (modulo the pool size) as soon as
\* the attempt has ended, however it ended; the last len(pool) attempts
\* have tried every node of the pool once
C26_RoundRobin ==
    /\ client.pool > 0 => client.pool_idx \in 0..(client.pool - 1)
    /\ client.tried # <<>> =>
        LET node == client.tried[Len(client.tried)]
        IN  client.pool_idx = IF InConnect THEN node
                              ELSE (node + 1) % client.pool
    /\ \A i \in 1..(Len(client.tried) - 1) :
        client.tried[i + 1] = (client.tried[i] + 1) % client.pool
    /\ Len(client.tried) = client.pool =>
        {client.tried[i] : i \in 1..Len(client.tried)} = 0..(client.pool - 1)

\* three attempts in a row on a pool of three nodes: one refused, one timed
\* out, and the third is being made
C26_Witness ==
    /\ client.pool = 3 /\ Len(client.tried) = 3
    /\ last.op = "attempt" /\ last.wait_time = 4
    /\ last.node = (client.tried[1] + 2) % 3

\* an attempt that has succeeded has advanced the index as well
C26_WitnessSuccess ==
    /\ client.pool = 3 /\ last.op = "reconnected"
    /\ client.pool_idx = (protos[last.new].node + 1) % 3

\* ------------------------------------------------------------------- C27
\* the reconnect loop t is about to go on after `await self._rejoin()`, no
\* JOIN has raised and one was answered with null for its room
RejoinedWithNull(t) ==
    /\ tasks[t].kind = "rc" /\ tasks[t].pc = "rejoin"
    /\ HeadIs("wake") /\ Head(ready).t = t
    /\ ~IsExc(tasks[t].gather.out)
    /\ \E i \in 1..Len(tasks[t].gather.results) :
            tasks[t].gather.results[i] = [joined |-> FALSE]

\* C27: when a rejoin JOIN is answered with null for a room, the room stays
\* in the registry unchanged, no error is raised and the reconnect attempt
\* is a successful one: the step in which the loop goes on after the
\* rejoin ends it as reconnected
C27_NullKept ==
    [][\A t \in TaskIds :
        (RejoinedWithNull(t) /\ tasks'[t] # tasks[t]) =>
            /\ last'.op = "reconnected" /\ last'.t = t
            /\ client'.rooms = client.rooms
            /\ \A i \in 1..Len(tasks[t].gather.rooms) :
                \E j \in 1..Len(client'.rooms) :
                    client'.rooms[j] = tasks[t].gather.rooms[i]
            /\ tasks[t].gather.rooms # <<>>
            /\ objs' = objs
            /\ client'.protocol = client.protocol
            /\ protos'[tasks[t].res.p].transport
                    = protos[tasks[t].res.p].transport]_vars

\* a reconnect has succeeded although the room of its rejoin is not joined
\* on the new connection
C27_Witness ==
    /\ last.op = "reconnected"
    /\ client.rooms # <<>>
    /\ \E i \in 1..Len(client.rooms) :
            client.rooms[i].id \notin protos[last.new].subs
    /\ client.protocol = last.new

\* ------------------------------------------------------------------- C22
\* reconnect(), called by the application on a connected client, has
\* returned; the node next in the pool had accepted connect, PING and AUTH
SwitchAccepted ==
    /\ last.op = "reconnected" /\ last.src = "reconnect" /\ last.old # 0
    /\ \E p \in 1..Len(protos) :
        /\ p > last.old
        /\ protos[p].node = (protos[last.old].node + 1) % client.pool
        /\ protos[p].stage \in {"authed", "ready"}

C30_PidCounter ==
    /\ \A p \in 1..Len(protos) :
        /\ protos[p].pid \in 0..65535
        /\ protos[p].pid = protos[p].writes % (2 ^ 16)
    /\ \A r \in 1..Len(futs) :
        /\ futs[r].pid \in 0..65535
        /\ futs[r].pid = futs[r].k % (2 ^ 16)
        /\ futs[r].k = 1 => futs[r].pid = 1
        /\ futs[r].k = 65536 => futs[r].pid = 0
        /\ futs[r].k < 65536 => futs[r].pid # 0

\* the 65536th write of a connection has been made, with pid 0
C30_Witness ==
    /\ last.op = "write"
    /\ futs[last.fut].k = 65536 /\ futs[last.fut].pid = 0
    /\ protos[futs[last.fut].p].pid = 0

\* the first write of a connection, with pid 1
C30_WitnessFirst ==
    /\ last.op = "write"
    /\ futs[last.fut].k = 1 /\ futs[last.fut].pid = 1

\* the write after the wrap, with pid 1 again
C30_WitnessAfterWrap ==
    /\ last.op = "write"
    /\ futs[last.fut].k = 65537 /\ futs[last.fut].pid = 1

\* ------------------------------------------------------------------- C21
\* C21: a received frame whose check byte is not tp XOR 0xFF is rejected:
\* it is not given to _handle_package (the multiplexer of responses and
\* events) and it completes no pending request, on a TCP connection and on
\* a websocket
C21_CheckByte ==
    (/\ last.op \in {"_on_response", "_on_event", "unsupported"}
     /\ "checkbit" \in DOMAIN last.pkg) =>
        last.pkg.checkbit = BitXor(last.pkg.tp, 255, 8)

\* a frame with a wrong check byte has just completed a pending request
\* on a connection of the kind ws
BadFrameCompletes(ws) ==
    /\ last.op = "_on_response" /\ last.fut # 0
    /\ "checkbit" \in DOMAIN last.pkg
    /\ last.pkg.checkbit # BitXor(last.pkg.tp, 255, 8)
    /\ protos[last.p].ws = ws
    /\ futs[last.fut].st = "result"

NoBadFrameCompletesTCP == ~BadFrameCompletes(FALSE)

NoBadFrameCompletesWS == ~BadFrameCompletes(TRUE)

\* C28: client._rooms and the _id of a room are written only while
\* client._rooms_lock is locked: by join() and no_join() when they register
\* the room and set the id the code evaluated to, and by _on_stop when
\* ON_ROOM_LEAVE or ON_ROOM_DELETE removes the room
C28_LockHeld == ~client.unlocked

\* join() of a room made with code has set the id and registered the room
C28_Witness ==
    /\ last.op = "done" /\ last.task.kind = "rq" /\ last.task.resolved
    /\ ~IsExc(last.out)
    /\ objs[last.task.room.obj]._id = IntId(last.task.room.id)
    /\ \E i \in 1..Len(client.rooms) :
        client.rooms[i].obj = last.task.room.obj
    /\ ~client.rooms_lock.locked

\* no_join() of a room made with code has set the id
C28_WitnessNoJoin ==
    /\ last.op = "done" /\ last.task.kind = "rq"
    /\ last.task.src = "no_join_is_room" /\ ~IsExc(last.out)
    /\ last.task.room.obj = 3
    /\ objs[3]._id = IntId(last.task.room.id)
    /\ ~client.rooms_lock.locked

\* ON_ROOM_LEAVE or ON_ROOM_DELETE has removed a registered room
C28_WitnessRemoved ==
    /\ last.op = "_on_room" /\ last.tp \in {ON_ROOM_LEAVE, ON_ROOM_DELETE}
    /\ last.o # 0 /\ ~last.registered
    /\ \A i \in 1..Len(client.rooms) : client.rooms[i].id # last.id

\* ------------------------------------------------------------------- C31
\* a request that is pending has its slot in the map of pending requests:
\* the slot of its pid holds its future
PendingHasSlot(r) ==
    \E i \in 1..Len(protos[futs[r].p].requests) :
        /\ protos[futs[r].p].requests[i].pid = futs[r].pid
        /\ protos[futs[r].p].requests[i].fut = r

\* C31: each pid has at most one slot and a pending request is never
\* displaced: a write whose new pid is the pid of a slot that is still
\* pending is rejected and leaves the slot, its future and its timer as
\* they were
C31_NoDisplacement ==
    /\ \A p \in 1..Len(protos) : \A i, j \in 1..Len(protos[p].requests) :
            protos[p].requests[i].pid = protos[p].requests[j].pid => i = j
    /\ \A r \in 1..Len(futs) :
            (futs[r].st = "pending" /\ protos[futs[r].p].transport)
                => PendingHasSlot(r)

\* ------------------------------------------------------------------- C32
\* the package of a whole frame
PkgOf(frame) ==
    [Package(frame) EXCEPT !.data = Package_data(Package(frame), frame).obj]

WellFormed(frame) == Package_data(Package(frame), frame).ok

\* how many of the frames lie wholly within the first n bytes
RECURSIVE Whole(_, _)
Whole(frames, n) ==
    IF frames = <<>> \/ Len(Head(frames)) > n THEN 0
    ELSE 1 + Whole(Tail(frames), n - Len(Head(frames)))

\* the bytes of connection p that were read
ReadOf(p) == Len(Flatten(protos[p].sent)) - Len(protos[p].wire)

\* C32: however the bytes of a stream of well-formed frames are cut into
\* calls of data_received, the packages given to _handle_package are those
\* of the frames that were read wholly, each once and in the order of the
\* stream, and the bytes read after them are kept in the buffer: nothing
\* is given with less than 8 bytes or less than 8 + length bytes
C32_ChunkingFree ==
    \A p \in 1..Len(protos) :
        (/\ ~protos[p].ws /\ protos[p].sent # <<>>
         /\ \A i \in 1..Len(protos[p].sent) : WellFormed(protos[p].sent[i]))
        => LET k == Whole(protos[p].sent, ReadOf(p))
               done == Len(Flatten(SubSeq(protos[p].sent, 1, k)))
           IN  /\ protos[p].handled
                    = [i \in 1..k |-> PkgOf(protos[p].sent[i])]
               /\ protos[p]._buffered_data
                    = SubSeq(Flatten(protos[p].sent), done + 1, ReadOf(p))

\* three frames were read in chunks and all three were given
C32_Witness ==
    /\ Len(protos[1].sent) = 3 /\ protos[1].wire = <<>>
    /\ Len(protos[1].handled) = 3
    /\ last.op = "_on_event" /\ last.pkg = PkgOf(protos[1].sent[3])
    /\ protos[1].sent[1] # protos[1].sent[2]

\* a read has ended inside the header of the second frame
C32_WitnessHeaderCut ==
    /\ Len(protos[1].handled) = 1
    /\ Len(protos[1]._buffered_data) \in 1..7
    /\ protos[1].package = NoData

\* a read has ended inside the payload of a frame
C32_WitnessPayloadCut ==
    /\ protos[1].package # NoData
    /\ Len(protos[1]._buffered_data) = 9 /\ protos[1].package.total = 10
    /\ protos[1].handled = <<>>

\* ------------------------------------------------------------------- C33
\* the frames that begin at or after byte n of the stream
RECURSIVE After(_, _)
After(frames, n) ==
    IF frames = <<>> \/ n <= 0 THEN frames
    ELSE After(Tail(frames), n - Len(Head(frames)))

\* the well-formed ones of the frames, in their order
RECURSIVE Good(_)
Good(frames) ==
    IF frames = <<>> THEN <<>>
    ELSE IF WellFormed(Head(frames))
    THEN <<Head(frames)>> \o Good(Tail(frames))
    ELSE Good(Tail(frames))

Pkgs(frames) == [i \in 1..Len(frames) |-> PkgOf(frames[i])]

\* a payload has just failed to unpack on connection p
UnpackFailed(p) ==
    /\ last.op = "unpack_failed" /\ last.p = p /\ last.pkg # NoData

\* C33: after a payload failed to unpack on a TCP connection, the
\* well-formed frames received afterwards are still delivered: when the
\* frames that begin after the bytes read so far are all well-formed and
\* the next data_received brings all their bytes, their packages are given
\* to _handle_package in the order of the stream: they are the last ones
\* given in that call
C33_StillDelivered ==
    [][\A p \in 1..Len(protos) :
        (/\ ~protos[p].ws /\ UnpackFailed(p)
         /\ protos[p].wire # <<>> /\ protos'[p].wire = <<>>
         /\ \A i \in 1..Len(After(protos[p].sent, ReadOf(p))) :
                WellFormed(After(protos[p].sent, ReadOf(p))[i]))
        => LET new == SubSeq(protos'[p].handled, Len(protos[p].handled) + 1,
                             Len(protos'[p].handled))
               due == Pkgs(After(protos[p].sent, ReadOf(p)))
           IN  /\ Len(new) >= Len(due)
               /\ SubSeq(new, Len(new) - Len(due) + 1, Len(new)) = due]_vars

\* the failing frame is not delivered and completes no request; on TCP the
\* whole buffer is cleared and the parser awaits a header
C33_FailureDropped ==
    \A p \in 1..Len(protos) : UnpackFailed(p) =>
        /\ \A i \in 1..Len(protos[p].handled) :
                protos[p].handled[i] # last.pkg
        /\ \A r \in 1..Len(futs) : futs[r].st = "pending"
        /\ ~protos[p].ws =>
            /\ protos[p]._buffered_data = <<>>
            /\ protos[p].package = NoData

\* on a websocket only the failing message is dropped: the packages given
\* are those of the well-formed messages received so far
C33_MessageDropped ==
    \A p \in 1..Len(protos) : (protos[p].ws /\ protos[p].sent # <<>>) =>
        protos[p].handled
            = Pkgs(Good(SubSeq(protos[p].sent, 1,
                    Len(protos[p].sent) - Len(protos[p].inbox))))

\* a failing frame and the first bytes of the next frame were in the
\* buffer that was cleared, and a whole frame is still to come
C33_Straddled ==
    /\ ~protos[1].ws /\ UnpackFailed(1)
    /\ Len(protos[1].sent) = 3 /\ WellFormed(protos[1].sent[3])
    /\ ReadOf(1) \in (Len(protos[1].sent[1]) + 1)
                        ..(Len(protos[1].sent[1]) + Len(protos[1].sent[2]) - 1)

\* a websocket has dropped a failing message and given the next one
C33_WitnessWS ==
    /\ protos[1].ws /\ Len(protos[1].sent) >= 2
    /\ ~WellFormed(protos[1].sent[1]) /\ WellFormed(protos[1].sent[2])
    /\ protos[1].handled = <<PkgOf(protos[1].sent[2])>>

\* ------------------------------------------------------------------- C34
\* the AUTH request written on connection p was answered successfully
AuthAnswered(p) ==
    \/ protos[p].stage \in {"authed", "ready"}
    \/ \E r \in 1..Len(futs) :
        /\ futs[r].p = p /\ futs[r].tp = REQ_AUTH /\ futs[r].st = "result"

\* C34: on a connection opened by the reconnect loop a request of the
\* application (query(), run() or a method of a room) is written only
\* after the AUTH request on that connection was answered successfully
C34_AuthFirst ==
    (/\ last.op = "write" /\ futs[last.fut].src # "rejoin"
     /\ futs[last.fut].tp \in {REQ_QUERY, REQ_RUN, REQ_EMIT, REQ_JOIN,
                               REQ_LEAVE})
        => AuthAnswered(futs[last.fut].p)

\* ------------------------------------------------------------------- C35
\* C35: when a reconnect loop has succeeded and the connection it started
\* from is closed, every registered room was sent in a JOIN request on the
\* new connection, also a room whose join() ran while the loop did
C35_AllRejoined ==
    (/\ client.protocol # 0 /\ ~client.reconnecting
     /\ protos[client.protocol].stage = "ready"
     /\ protos[client.protocol].transport
     /\ \A q \in 1..Len(protos) :
            q # client.protocol => ~protos[q].transport)
        => \A i \in 1..Len(client.rooms) :
                client.rooms[i].id \in protos[client.protocol].join_ids

\* ------------------------------------------------------------------- C36
\* C36: after a reconnect loop has ended with success the only open
\* transports are the current one and, until the 10 seconds are over, the
\* one that was current when the loop started: a transport opened by an
\* attempt that failed at PING, AUTH or the rejoin was closed
C36_FailedClosed ==
    (last.op = "reconnected" /\ last.new # 0) =>
        \A q \in 1..Len(protos) :
            (protos[q].transport /\ ~protos[q].closing) =>
                \/ q = last.new
                \/ q = last.old /\ protos[q].grace = "armed"

\* ------------------------------------------------------------------- C37
\* C37: a join() that raises leaves the registry of the client as it was
\* before the call; for the first join() the application calls, before
\* which the registry is empty: when it raises (LookupError, an error of
\* the server, TimeoutError of join(wait=W) without ON_ROOM_JOIN within W)
\* no room is registered
C37_RaisedUnregistered ==
    (/\ last.op = "done" /\ last.task.kind = "rq" /\ last.task.src = "join"
     /\ IsExc(last.out) /\ client.joins = 1)
        => client.rooms = <<>>

\* join() has raised LookupError, the room is not registered
C37_LookupRaised ==
    /\ last.op = "done" /\ last.task.kind = "rq" /\ last.task.src = "join"
    /\ last.out = Exc("LookupError") /\ client.joins = 1
    /\ client.rooms = <<>>

\* ------------------------------------------------------------------- C38
\* the loop runs connection_lost of connection p, which is not the current
\* connection of the client
OldLost(p) ==
    /\ ready # <<>> /\ Head(ready).k = "lost" /\ Head(ready).p = p
    /\ client.protocol # p
    /\ protos[p].transport /\ ~protos'[p].transport

\* C38: connection_lost of a connection that is not the current one leaves
\* the current connection in place, starts no reconnect, cancels the
\* requests pending on that connection and leaves the requests pending on
\* other connections as they are
C38_OldLoss ==
    [][\A p \in 1..Len(protos) : OldLost(p) =>
        /\ client'.protocol = client.protocol
        /\ client'.reconnecting = client.reconnecting
        /\ \A t \in TaskIds : tasks'[t].kind = "rc" => tasks[t] = tasks'[t]
        /\ \A q \in 1..Len(protos) : q # p => protos'[q] = protos[q]
        /\ protos'[p].requests = <<>>
        /\ \A r \in 1..Len(futs) :
            /\ (futs[r].p # p /\ futs[r].st = "pending")
                    => futs'[r] = futs[r]
            /\ (futs[r].p = p /\ futs[r].st = "pending")
                    => futs'[r].st \in {"cancelled", "collected"}]_vars

\* the connection closed after the grace period was lost while a request
\* was pending on the current connection, which is pending still
C38_Witness ==
    /\ last.op = "connection_lost" /\ ~last.current
    /\ client.protocol # 0 /\ protos[client.protocol].transport
    /\ protos[last.p].closedby = "client"
    /\ \E r \in 1..Len(futs) :
        /\ futs[r].p = client.protocol /\ futs[r].st = "pending"
        /\ futs[r].src = "app"

\* a connection that is not the current one was lost with a request
\* pending on it
C38_WitnessCancelled ==
    /\ last.op = "connection_lost" /\ ~last.current
    /\ client.protocol # 0 /\ protos[client.protocol].transport
    /\ \E r \in 1..Len(futs) :
        futs[r].p = last.p /\ futs[r].st = "cancelled"

\* ------------------------------------------------------------------- C39
\* everything the node has sent was handled: no callback is ready, no
\* coroutine is under way and no request is unanswered
Settled ==
    /\ ready = <<>>
    /\ \A t \in TaskIds : tasks[t] = Free
    /\ \A r \in 1..Len(futs) : futs[r].answered

\* the waiter with room o has joined its room and the node has sent the
\* ON_ROOM_JOIN of the join
Joined39(o) ==
    /\ \E i \in 1..Len(client.rooms) : client.rooms[i].obj = o
    /\ RoomOf(o).id \in protos[1].join_events

\* C39: a waiter of misc.lock never misses the hand-over: when the node
\* has handed the lock over to the waiter (its room has the name 'go' and
\* 'go' was emitted), before, during or after the join of the room, and
\* the join and what the node has sent are handled, the future of the
\* waiter's room is resolved, by on_go or by the test of on_join
C39_NoMissedHandOver ==
    \A o \in LockObjs :
        (objs[o].name = "go" /\ Joined39(o) /\ Settled)
            => objs[o].future = "done"

\* the lock was handed over before the waiter called join(): the test of
\* on_join has resolved the future
C39_Witness ==
    /\ objs[1].name = "go" /\ Joined39(1) /\ Settled
    /\ objs[1].future = "done" /\ objs[1].by = "on_join"

\* the lock was handed over after the join: on_go has resolved the future
C39_WitnessAfter ==
    /\ objs[1].name = "go" /\ Joined39(1) /\ Settled
    /\ objs[1].future = "done" /\ objs[1].by = "on_go"

\* the lock is handed over during the join: the node has subscribed the
\* connection and emits 'go' while join() has not registered the room
C39_WitnessDuring ==
    /\ last.op = "go" /\ last.o = 1 /\ last.sent /\ last.init = 0

\* both waiters were handed the lock and the futures of both are resolved
C39_WitnessBoth ==
    /\ objs[2].name = "go" /\ Joined39(2) /\ Settled
    /\ objs[2].future = "done" /\ objs[1].future = "done"

\* ------------------------------------------------------------------- C40
\* the part of the scope after the last ':' or, without ':', after the
\* last '/'; nothing when the scope has neither
PartOf(scope) ==
    LET colons == {i \in 1..Len(scope) : scope[i] = ":"}
        slashes == {i \in 1..Len(scope) : scope[i] = "/"}
        Last(set) == CHOOSE i \in set : \A j \in set : j <= i
    IN  IF colons # {} THEN SubSeq(scope, Last(colons) + 1, Len(scope))
        ELSE IF slashes # {} THEN SubSeq(scope, Last(slashes) + 1, Len(scope))
        ELSE <<>>

\* [A-Za-z_][0-9A-Za-z_]{0,254} matches the name as a whole
ValidName(name) ==
    /\ Len(name) \in 1..(1 + NameMore)
    /\ name[1] \in Letters \cup {"_"}
    /\ \A i \in 2..Len(name) : name[i] \in Letters \cup Digits \cup {"_"}

\* C40: cnscope(scope) returns the part of the scope after the last ':'
\* (without ':', after the last '/') when that part is a valid collection
\* name as a whole, and raises ValueError for every other scope
C40_CnScope ==
    last.op = "cnscope" =>
        IF ValidName(PartOf(last.scope))
        THEN last.out = [res |-> PartOf(last.scope)]
        ELSE last.out = Exc("ValueError")

\* cnscope('//a') and cnscope('@:a') in the characters of the model
C40_Returned ==
    /\ last.op = "cnscope" /\ last.scope = <<"/", "/", "a">>
    /\ last.out = [res |-> <<"a">>]

\* cnscope has raised ValueError for a name that begins with a digit
C40_Raised ==
    /\ last.op = "cnscope" /\ last.scope = <<"/", "/", "7", "a">>
    /\ last.out = Exc("ValueError")

====
